---- MODULE Spec2Model ----
(***************************************************************************)
(* Model of the memory manager of agent_memory_system:                     *)
(*   core/memory/memory_manager.py  (MemoryManager)                        *)
(*   core/storage/{vector,graph,cache}_store.py (the three backing stores) *)
(*   models/memory_model.py         (Memory and its validators)            *)
(*   core/memory/memory_types.py    (the handlers of the memory types)     *)
(*                                                                         *)
(* The handlers are written as operators over a "world" record holding the *)
(* manager's fields and the contents of the three stores; each returns the *)
(* world after the call together with the value returned or the exception  *)
(* raised.  An action of the state machine is one whole handler call.      *)
(***************************************************************************)
EXTENDS Integers, Sequences, FiniteSets, TLC

\* ------------------------------------------------------------------------
\* Bounds of the model
\* ------------------------------------------------------------------------
MaxIds == 2
MaxTime == 3
MaxWorkers == 2
MaxCalls == 2
MaxClock == 15
TickSeconds == 5
MaxAccessCount == 3
MaxLifeClock == 40
TickMinutes == 20
MaxVectorCalls == 4
MaxResults == 3

\* ------------------------------------------------------------------------
\* Program constants
\* ------------------------------------------------------------------------
VectorDimension == 768
EmbeddingDimension == 384
MaxAttempts == 3
HighImportance == 8
LockTimeout == 10
RetryWait == 4
MaxImportance == 10

Ids == 1..MaxIds
\* The arguments store_memory is called with: content, memory_type,
\* importance, and the vector by its length: 0 is the empty list,
\* EmbeddingDimension is what generate_embedding_vector (or the fallback of
\* store_memory) yields when no vector is supplied, VectorDimension is a
\* supplied vector that fits the index.
StoreInputs ==
  { [content |-> "a", memory_type |-> "short_term", importance |-> 5,
     vector |-> EmbeddingDimension],
    [content |-> "b", memory_type |-> "long_term", importance |-> 9,
     vector |-> VectorDimension],
    [content |-> "a", memory_type |-> "long_term", importance |-> 5,
     vector |-> 0],
    [content |-> "b", memory_type |-> "short_term", importance |-> 9,
     vector |-> 0] }
Statuses == {"active", "inactive", "archived", "deleted"}

\* What the environment does to the calls made during one handler call:
\*   redis : FALSE = the Redis client raises RedisError
\*   graph : "ok" | "err" (Neo4jError, caught inside GraphStore)
\*                | "raise" (a driver error that is no Neo4jError, e.g.
\*                           ServiceUnavailable: GraphStore lets it through)
\*   vec   : FALSE = the FAISS index or its file raises inside VectorStore
\*   slow  : TRUE  = the locked section outlives the lock's 10 s timeout
Healthy == [redis |-> TRUE, graph |-> "ok", vec |-> TRUE, slow |-> FALSE]
Healths ==
  { Healthy,
    [Healthy EXCEPT !.redis = FALSE],
    [Healthy EXCEPT !.graph = "err"],
    [Healthy EXCEPT !.graph = "raise"],
    [Healthy EXCEPT !.vec = FALSE],
    [Healthy EXCEPT !.slow = TRUE] }

VARIABLES
  cache,     \* MemoryManager._cache : id -> Memory object (process-local)
  redis,     \* CacheStore (Redis)   : id -> JSON dump of a Memory
  graph,     \* GraphStore (Neo4j)   : id -> properties of the Memory node
  grels,     \* GraphStore relations : set of <<source, target>>
  vstore,    \* VectorStore._id_map  : ids that have a vector in the index
  in_transaction,          \* MemoryManager._local.in_transaction
  transaction_operations,  \* MemoryManager._local.transaction_operations
  nextId,    \* number of ids handed out so far (uuid4 never repeats one)
  now,       \* the wall clock
  last,      \* the call that ended last: what it was given and what it gave
  hist,      \* per id: how its store and its delete ended, what was last read
  pc,        \* per worker thread: where it is in its manager call
  lock       \* the Redis lock "memory_lock:<id>": its holder and its expiry

vars == <<cache, redis, graph, grels, vstore, in_transaction,
          transaction_operations, nextId, now, last, hist, pc, lock>>

\* ------------------------------------------------------------------------
\* Partial maps (Python dicts, Redis keys, Neo4j nodes keyed by property id)
\* ------------------------------------------------------------------------
Put(f, k, v) == [x \in DOMAIN f \cup {k} |-> IF x = k THEN v ELSE f[x]]
Drop(f, k) == [x \in DOMAIN f \ {k} |-> f[x]]
Empty == [x \in {} |-> 0]

\* The absent Memory (Python None), shaped like a Memory.
NoMemory ==
  [id |-> 0, content |-> "", memory_type |-> "", importance |-> 0,
   status |-> "", vector |-> 0, relations |-> <<>>, created_at |-> 0,
   updated_at |-> 0, accessed_at |-> 0, access_count |-> 0]

\* The world: the manager's fields and the stores' contents.
World ==
  [cache |-> cache, redis |-> redis, graph |-> graph, grels |-> grels,
   vstore |-> vstore, intx |-> in_transaction, ops |-> transaction_operations]

\* ------------------------------------------------------------------------
\* models/memory_model.py
\* ------------------------------------------------------------------------
\* Memory.validate_memory: the model validator run at construction and, with
\* validate_assignment, at every field assignment.
validate_memory(m) ==
  /\ ~(m.importance >= HighImportance /\ m.vector = 0)
  /\ ~(m.status = "deleted" /\ m.relations # <<>>)

\* A Memory built with the field default of importance (5) in place of the
\* argument; the round trip C3 does not hold of it.
NewMemory_default_importance(id, content, mtype, importance, vector, t) ==
  [id |-> id, content |-> content, memory_type |-> mtype,
   importance |-> 5, status |-> "active", vector |-> vector,
   relations |-> <<>>, created_at |-> t, updated_at |-> t,
   accessed_at |-> t, access_count |-> 0]

\* Memory(...) as store_memory builds it.
NewMemory(id, content, mtype, importance, vector, t) ==
  [id |-> id, content |-> content, memory_type |-> mtype,
   importance |-> importance, status |-> "active", vector |-> vector,
   relations |-> <<>>, created_at |-> t, updated_at |-> t,
   accessed_at |-> t, access_count |-> 0]

update_access(m, t) ==
  [m EXCEPT !.accessed_at = t, !.access_count = @ + 1]

\* ------------------------------------------------------------------------
\* core/storage/vector_store.py
\* ------------------------------------------------------------------------
\* VectorStore.add: every exception (wrong dimension, index or file error) is
\* caught and reported as False.
VectorStore_add(w, h, id, vector) ==
  IF vector = VectorDimension /\ h.vec
  THEN [w |-> [w EXCEPT !.vstore = @ \cup {id}], ret |-> TRUE]
  ELSE [w |-> w, ret |-> FALSE]

VectorStore_delete(w, h, id) ==
  IF id \in w.vstore /\ h.vec
  THEN [w |-> [w EXCEPT !.vstore = @ \ {id}], ret |-> TRUE]
  ELSE [w |-> w, ret |-> FALSE]

\* VectorStore.get: the vector's length, 0 for None.
VectorStore_get(w, h, id) ==
  IF id \in w.vstore /\ h.vec THEN VectorDimension ELSE 0

\* ------------------------------------------------------------------------
\* core/storage/graph_store.py
\* Each method catches Neo4jError (h.graph = "err") and reports None/False;
\* any other driver exception (h.graph = "raise") leaves the method.
\* ------------------------------------------------------------------------
NodeOf(m) ==
  [content |-> m.content, type |-> m.memory_type, importance |-> m.importance,
   status |-> m.status, created_at |-> m.created_at,
   updated_at |-> m.updated_at, accessed_at |-> m.accessed_at,
   access_count |-> m.access_count]

GraphStore_add_node(w, h, id, props) ==
  CASE h.graph = "ok" ->
         [w |-> [w EXCEPT !.graph = Put(@, id, props)], ret |-> TRUE, exc |-> "none"]
    [] h.graph = "err" -> [w |-> w, ret |-> FALSE, exc |-> "none"]
    [] OTHER -> [w |-> w, ret |-> FALSE, exc |-> "ServiceUnavailable"]

\* found is FALSE for a missing node and for a caught Neo4jError alike
GraphStore_get_node_by_property(w, h, id) ==
  CASE h.graph = "ok" ->
         [found |-> id \in DOMAIN w.graph, exc |-> "none"]
    [] h.graph = "err" -> [found |-> FALSE, exc |-> "none"]
    [] OTHER -> [found |-> FALSE, exc |-> "ServiceUnavailable"]

\* SET n += $properties: the given keys are overwritten, the rest kept
GraphStore_update_node_by_property(w, h, id, props) ==
  CASE h.graph = "ok" ->
         IF id \in DOMAIN w.graph
         THEN [w |-> [w EXCEPT !.graph[id] =
                        [k \in DOMAIN @ |-> IF k \in DOMAIN props THEN props[k] ELSE @[k]]],
               ret |-> TRUE, exc |-> "none"]
         ELSE [w |-> w, ret |-> FALSE, exc |-> "none"]
    [] h.graph = "err" -> [w |-> w, ret |-> FALSE, exc |-> "none"]
    [] OTHER -> [w |-> w, ret |-> FALSE, exc |-> "ServiceUnavailable"]

\* DETACH DELETE: True whether or not a node matched
GraphStore_delete_node_by_property(w, h, id) ==
  CASE h.graph = "ok" ->
         [w |-> [w EXCEPT !.graph = Drop(@, id),
                          !.grels = {r \in @ : r[1] # id /\ r[2] # id}],
          ret |-> TRUE, exc |-> "none"]
    [] h.graph = "err" -> [w |-> w, ret |-> FALSE, exc |-> "none"]
    [] OTHER -> [w |-> w, ret |-> FALSE, exc |-> "ServiceUnavailable"]

\* ------------------------------------------------------------------------
\* core/storage/cache_store.py
\* ------------------------------------------------------------------------
\* CacheStore.get: RedisError is caught and the default (None) returned
CacheStore_get(w, h, id) ==
  IF h.redis /\ id \in DOMAIN w.redis
  THEN [found |-> TRUE, mem |-> w.redis[id]]
  ELSE [found |-> FALSE, mem |-> NoMemory]

\* CacheStore.set: json.dumps(value) then SET; RedisError and TypeError are
\* caught and reported as False.  jsonable is FALSE for Memory.dict(), whose
\* UUID and datetime values json.dumps rejects with TypeError, and TRUE for
\* Memory.model_dump(mode='json').
CacheStore_set(w, h, id, value, jsonable) ==
  IF h.redis /\ jsonable
  THEN [w |-> [w EXCEPT !.redis = Put(@, id, value)], ret |-> TRUE]
  ELSE [w |-> w, ret |-> FALSE]

\* CacheStore.delete: bool(number of keys removed)
CacheStore_delete(w, h, id) ==
  IF h.redis
  THEN [w |-> [w EXCEPT !.redis = Drop(@, id)], ret |-> id \in DOMAIN w.redis]
  ELSE [w |-> w, ret |-> FALSE]

\* ------------------------------------------------------------------------
\* core/memory/memory_manager.py: the soft transaction
\* ------------------------------------------------------------------------
\* One registered operation is the closure store_vector, store_node or
\* store_cache of one store_memory call, with its rollback attribute.
Op(kind, m) == [kind |-> kind, mem |-> m]

\* operation(): the closure bodies of store_memory (lines 197-228).
\* wrote is FALSE when the write the closure makes reports or raises failure.
RunOperation(w, h, op) ==
  LET m == op.mem IN
  CASE op.kind = "vector" ->
         IF m.vector # 0
         THEN LET r == VectorStore_add(w, h, m.id, m.vector)
              IN [w |-> r.w, exc |-> "none", wrote |-> r.ret]
         ELSE [w |-> w, exc |-> "none", wrote |-> TRUE]
    [] op.kind = "node" ->
         LET r == GraphStore_add_node(w, h, m.id, NodeOf(m))
         IN [w |-> r.w, exc |-> r.exc, wrote |-> r.ret]
    [] OTHER ->
         LET r == CacheStore_set(w, h, m.id, m, TRUE)
         IN [w |-> [r.w EXCEPT !.cache = Put(@, m.id, m)], exc |-> "none",
             wrote |-> r.ret]

\* operation.rollback(): the lambdas of store_memory (lines 233-244); the
\* rollback loop of transaction() swallows what they raise.
RunRollback(w, h, op) ==
  LET id == op.mem.id IN
  CASE op.kind = "vector" -> VectorStore_delete(w, h, id).w
    [] op.kind = "node" -> GraphStore_delete_node_by_property(w, h, id).w
    [] OTHER -> [CacheStore_delete(w, h, id).w EXCEPT !.cache = Drop(@, id)]

\* for operation in ops: operation()   -- stops at the first that raises.
\* ran: the kinds and ids of the operations that returned; bad: ids a write
\* of which failed.
RECURSIVE RunOperations(_, _, _, _, _, _)
RunOperations(w, h, ops, i, ran, bad) ==
  IF i > Len(ops) THEN [w |-> w, exc |-> "none", ran |-> ran, bad |-> bad]
  ELSE LET r == RunOperation(w, h, ops[i])
           b == IF r.wrote THEN bad ELSE bad \cup {ops[i].mem.id}
       IN IF r.exc # "none"
          THEN [w |-> r.w, exc |-> r.exc, ran |-> ran, bad |-> b]
          ELSE RunOperations(r.w, h, ops, i + 1, Append(ran, ops[i].kind), b)

\* for operation in reversed(ops): operation.rollback()
RECURSIVE RunRollbacks(_, _, _, _, _)
RunRollbacks(w, h, ops, i, done) ==
  IF i = 0 THEN [w |-> w, comp |-> done]
  ELSE RunRollbacks(RunRollback(w, h, ops[i]), h, ops, i - 1,
                    Append(done, ops[i].kind))

\* transaction() without the test of lines 107-108: a nested block starts
\* the transaction anew; C6 does not hold of it.
transaction_enter_reentrant(w) ==
  [w |-> [w EXCEPT !.intx = TRUE, !.ops = <<>>], exc |-> "none"]

\* transaction().__enter__ (lines 107-111)
transaction_enter(w) ==
  IF w.intx
  THEN [w |-> w, exc |-> "TransactionError"]
  ELSE [w |-> [w EXCEPT !.intx = TRUE, !.ops = <<>>], exc |-> "none"]

\* transaction().__exit__ when the block ended normally (lines 113-129):
\* commit, and on any exception roll every registered operation back.
transaction_commit(w, h) ==
  LET c == RunOperations(w, h, w.ops, 1, <<>>, {})
      closed(x) == [x EXCEPT !.intx = FALSE, !.ops = <<>>]
  IN IF c.exc = "none"
     THEN [w |-> closed(c.w), exc |-> "none", ran |-> c.ran, comp |-> <<>>,
           bad |-> c.bad]
     ELSE LET b == RunRollbacks(c.w, h, w.ops, Len(w.ops), <<>>)
          IN [w |-> closed(b.w), exc |-> "TransactionError", ran |-> c.ran,
              comp |-> b.comp, bad |-> c.bad]

\* transaction().__exit__ when the block raised (lines 118-129): nothing was
\* committed, every registered operation is rolled back.
transaction_abort(w, h) ==
  LET b == RunRollbacks(w, h, w.ops, Len(w.ops), <<>>)
  IN [w |-> [b.w EXCEPT !.intx = FALSE, !.ops = <<>>],
      exc |-> "TransactionError", ran |-> <<>>, comp |-> b.comp, bad |-> {}]

\* _add_transaction_operation (lines 131-142)
add_transaction_operation(w, h, op) ==
  IF w.intx
  THEN [w |-> [w EXCEPT !.ops = Append(@, op)], exc |-> "none", ran |-> <<>>,
        wrote |-> TRUE]
  ELSE LET r == RunOperation(w, h, op)
       IN [w |-> r.w, exc |-> r.exc,
           ran |-> IF r.exc = "none" THEN <<op.kind>> ELSE <<>>,
           wrote |-> r.wrote]

\* ------------------------------------------------------------------------
\* MemoryManager.store_memory (lines 144-248)
\* ------------------------------------------------------------------------
\* the three registrations, in the order of lines 231-245
StoreKinds == <<"vector", "node", "cache">>

RECURSIVE AddOperations(_, _, _, _, _, _)
AddOperations(w, h, m, i, ran, wrote) ==
  IF i > Len(StoreKinds)
  THEN [w |-> w, exc |-> "none", ran |-> ran, wrote |-> wrote]
  ELSE LET r == add_transaction_operation(w, h, Op(StoreKinds[i], m))
       IN IF r.exc # "none"
          THEN [w |-> r.w, exc |-> r.exc, ran |-> ran, wrote |-> FALSE]
          ELSE AddOperations(r.w, h, m, i + 1, ran \o r.ran, wrote /\ r.wrote)

store_memory(w, h, id, content, mtype, importance, vector, t) ==
  LET m == NewMemory(id, content, mtype, importance, vector, t) IN
  IF ~validate_memory(m)
  THEN [w |-> w, exc |-> "ValidationError", mem |-> NoMemory, ran |-> <<>>,
        wrote |-> TRUE]
  ELSE LET r == AddOperations(w, h, m, 1, <<>>, TRUE)
       IN [w |-> r.w, exc |-> r.exc,
           mem |-> IF r.exc = "none" THEN m ELSE NoMemory,
           ran |-> r.ran, wrote |-> r.wrote]

\* ------------------------------------------------------------------------
\* MemoryManager.retrieve_memory (lines 281-365)
\* ------------------------------------------------------------------------
\* _update_access_info (lines 367-394) on the object cached under id; every
\* exception inside it is logged and swallowed.
update_access_info(w, h, id, t) ==
  LET m0 == w.cache[id] IN
  IF ~validate_memory(m0) THEN w
  ELSE LET m1 == update_access(m0, t)
           w1 == [w EXCEPT !.cache[id] = m1]
           g == GraphStore_update_node_by_property(w1, h, id,
                  [accessed_at |-> m1.accessed_at,
                   access_count |-> m1.access_count])
       IN IF g.exc # "none" THEN w1
          ELSE CacheStore_set(g.w, h, id, m1, TRUE).w

\* what one attempt yields; attempts counts the runs of the decorated body
Miss(w, exc) ==
  [w |-> w, found |-> FALSE, mem |-> NoMemory, exc |-> exc, tier |-> "none",
   attempts |-> 1]
Hit(w, id, tier) ==
  [w |-> w, found |-> TRUE, mem |-> w.cache[id], exc |-> "none", tier |-> tier,
   attempts |-> 1]

\* Memory(...) rebuilt from the node's properties (lines 334-349): relations
\* and metadata are not stored on the node and take their defaults.
MemoryOfNode(id, p, vector) ==
  [id |-> id, content |-> p.content, memory_type |-> p.type,
   importance |-> p.importance, status |-> p.status, vector |-> vector,
   relations |-> <<>>, created_at |-> p.created_at,
   updated_at |-> p.updated_at, accessed_at |-> p.accessed_at,
   access_count |-> p.access_count]

\* the local-cache branch (lines 307-310)
LocalHit(w, id, t) ==
  IF ~validate_memory(w.cache[id]) THEN Miss(w, "ValidationError")
  ELSE Hit([w EXCEPT !.cache[id] = update_access(@, t)], id, "local")

\* the Redis branch with _update_access_info's try/except taken away: the
\* driver error of the graph update leaves the with-block
RemoteHit_bookkeeping_raises(w, h, id, t) ==
  LET d == CacheStore_get(w, h, id).mem IN
  IF ~validate_memory(d) THEN Miss(w, "ValidationError")
  ELSE IF h.graph = "raise" THEN Miss(w, "ServiceUnavailable")
  ELSE LET w1 == [w EXCEPT !.cache = Put(@, id, update_access(d, t))]
       IN Hit(update_access_info(w1, h, id, t), id, "remote")

\* the Redis branch (lines 313-320)
RemoteHit(w, h, id, t) ==
  LET d == CacheStore_get(w, h, id).mem IN
  IF ~validate_memory(d) THEN Miss(w, "ValidationError")
  ELSE LET w1 == [w EXCEPT !.cache = Put(@, id, update_access(d, t))]
       IN Hit(update_access_info(w1, h, id, t), id, "remote")

\* the graph branch (lines 323-361)
GraphHit(w, h, id, t) ==
  LET m == MemoryOfNode(id, w.graph[id], VectorStore_get(w, h, id)) IN
  IF ~validate_memory(m) THEN Miss(w, "ValidationError")
  ELSE LET w1 == [w EXCEPT !.cache = Put(@, id, m)]
           w2 == CacheStore_set(w1, h, id, m, TRUE).w
       IN Hit(update_access_info(w2, h, id, t), id, "graph")

\* the body with the Redis cache asked before the local cache
RetrieveLocked_remote_first(w, h, id, t) ==
  IF CacheStore_get(w, h, id).found THEN RemoteHit(w, h, id, t)
  ELSE IF id \in DOMAIN w.cache THEN LocalHit(w, id, t)
  ELSE LET n == GraphStore_get_node_by_property(w, h, id) IN
       IF n.exc # "none" THEN Miss(w, n.exc)
       ELSE IF ~n.found THEN Miss(w, "none")
       ELSE GraphHit(w, h, id, t)

\* the body of the with-block (lines 306-361)
RetrieveLocked(w, h, id, t) ==
  IF id \in DOMAIN w.cache THEN LocalHit(w, id, t)
  ELSE IF CacheStore_get(w, h, id).found THEN RemoteHit(w, h, id, t)
  ELSE LET n == GraphStore_get_node_by_property(w, h, id) IN
       IF n.exc # "none" THEN Miss(w, n.exc)
       ELSE IF ~n.found THEN Miss(w, "none")
       ELSE GraphHit(w, h, id, t)

\* one attempt: acquire the Redis lock, run the body, release the lock.
\* Acquiring raises when Redis is unreachable; releasing raises
\* LockNotOwnedError when the lock's timeout has expired meanwhile.
RetrieveAttempt(w, h, id, t) ==
  IF ~h.redis THEN Miss(w, "ConnectionError")
  ELSE LET r == RetrieveLocked(w, h, id, t)
       IN IF r.exc = "none" /\ h.slow THEN Miss(r.w, "LockNotOwnedError")
          ELSE r

\* @retry(stop_after_attempt(3)): any exception repeats the call; after the
\* last attempt tenacity raises RetryError.
RECURSIVE RetrieveRetry(_, _, _, _, _)
\* a retry that stops one attempt later
RetrieveRetry_one_more(w, h, id, t, n) ==
  LET r == RetrieveAttempt(w, h, id, t) IN
  IF r.exc = "none" THEN [r EXCEPT !.attempts = n]
  ELSE IF n >= MaxAttempts + 1
       THEN [Miss(r.w, "RetryError") EXCEPT !.attempts = n]
  ELSE RetrieveRetry(r.w, h, id, t, n + 1)

RetrieveRetry(w, h, id, t, n) ==
  LET r == RetrieveAttempt(w, h, id, t) IN
  IF r.exc = "none" THEN [r EXCEPT !.attempts = n]
  ELSE IF n >= MaxAttempts
       THEN [Miss(r.w, "RetryError") EXCEPT !.attempts = n]
  ELSE RetrieveRetry(r.w, h, id, t, n + 1)

retrieve_memory(w, h, id, t) == RetrieveRetry(w, h, id, t, 1)

\* ------------------------------------------------------------------------
\* MemoryManager.update_memory (lines 396-452)
\* ------------------------------------------------------------------------
\* memory.<field> = value under validate_assignment: validate_memory runs on
\* the object with the new value; when it raises, pydantic either leaves the
\* old value or has already written the new one (sticks), by version.
Assign(r, field, value, supplied, sticks) ==
  IF r.exc # "none" \/ ~supplied THEN r
  ELSE LET m == [r.mem EXCEPT ![field] = value] IN
       IF validate_memory(m) THEN [mem |-> m, exc |-> "none"]
       ELSE [mem |-> IF sticks THEN m ELSE r.mem, exc |-> "ValidationError"]

\* lines 421-430: the supplied fields, then updated_at
AssignFields(m, u, sticks, t) ==
  Assign(Assign(Assign(Assign([mem |-> m, exc |-> "none"],
                              "content", u.content, u.content # "", sticks),
                       "importance", u.importance, u.importance # 0, sticks),
                "status", u.status, u.status # "", sticks),
         "updated_at", t, TRUE, sticks)

NotUpdated(w, exc) ==
  [w |-> w, exc |-> exc, found |-> FALSE, mem |-> NoMemory]

\* lines 444-452: cache_store.set(..., memory.dict(), ...) is given a value
\* that is not JSON (UUID, datetime)
UpdateCache(g, h, id, m) ==
  IF g.exc # "none" THEN NotUpdated(g.w, g.exc)
  ELSE [w |-> CacheStore_set(g.w, h, id, m, FALSE).w, exc |-> "none",
        found |-> TRUE, mem |-> m]

\* lines 432-442; w holds the object, already assigned to, in its cache
UpdateGraph(w, h, id, a) ==
  IF a.exc # "none" THEN NotUpdated(w, a.exc)
  ELSE UpdateCache(
         GraphStore_update_node_by_property(w, h, id,
           [content |-> a.mem.content, importance |-> a.mem.importance,
            status |-> a.mem.status, updated_at |-> a.mem.updated_at]),
         h, id, a.mem)

\* the object retrieved is the one the local cache holds
UpdateObject(w, h, id, a) ==
  UpdateGraph([w EXCEPT !.cache[id] = a.mem], h, id, a)

UpdateRetrieved(r, h, id, u, sticks, t) ==
  IF r.exc # "none" \/ ~r.found THEN NotUpdated(r.w, r.exc)
  ELSE UpdateObject(r.w, h, id, AssignFields(r.mem, u, sticks, t))

\* u: the optional arguments, "" or 0 standing for None
update_memory(w, h, id, u, sticks, t) ==
  UpdateRetrieved(retrieve_memory(w, h, id, t), h, id, u, sticks, t)

\* ------------------------------------------------------------------------
\* MemoryManager.delete_memory (lines 476-506)
\* ------------------------------------------------------------------------
\* VectorStore has no method delete_vector (its method is delete): the call
\* of line 497 raises AttributeError.
VectorStore_delete_vector(w, h, id) ==
  [w |-> w, ret |-> FALSE, exc |-> "AttributeError"]

delete_memory(w, h, id) ==
  LET cached == id \in DOMAIN w.cache
      m == IF cached THEN w.cache[id] ELSE NoMemory
      w1 == [w EXCEPT !.cache = Drop(@, id)]
      v == IF cached /\ m.vector # 0
           THEN VectorStore_delete_vector(w1, h, id)
           ELSE [w |-> w1, ret |-> TRUE, exc |-> "none"]
  IN IF v.exc # "none" THEN [w |-> v.w, exc |-> v.exc, ret |-> FALSE]
     ELSE LET g == GraphStore_delete_node_by_property(v.w, h, id) IN
          IF g.exc # "none" THEN [w |-> g.w, exc |-> g.exc, ret |-> FALSE]
          ELSE LET c == CacheStore_delete(g.w, h, id)
               IN [w |-> c.w, exc |-> "none",
                   ret |-> v.ret /\ g.ret /\ c.ret]

\* ------------------------------------------------------------------------
\* MemoryManager.add_relation / remove_relation (lines 508-606)
\* ------------------------------------------------------------------------
\* GraphStore has no methods add_relation and delete_relation (it has
\* add_relationship and delete_relationship, keyed by Neo4j node ids): the
\* calls of lines 545 and 590 raise AttributeError.
GraphStore_add_relation(w, h, src, tgt) ==
  [w |-> w, ret |-> FALSE, exc |-> "AttributeError"]
GraphStore_delete_relation(w, h, src, tgt) ==
  [w |-> w, ret |-> FALSE, exc |-> "AttributeError"]

\* Memory.add_relation (memory_model.py lines 373-400): MemoryRelation
\* rejects a target equal to the source; the relation is appended in place,
\* which no validator sees.
Memory_add_relation(m, tgt) ==
  IF tgt = m.id THEN [mem |-> m, exc |-> "ValidationError"]
  ELSE [mem |-> [m EXCEPT !.relations = Append(@, tgt)], exc |-> "none"]

\* Memory.remove_relation (lines 402-414): an assignment, so validated
Memory_remove_relation(m, tgt) ==
  LET m1 == [m EXCEPT !.relations = SelectSeq(@, LAMBDA x : x # tgt)] IN
  IF validate_memory(m1) THEN [mem |-> m1, exc |-> "none"]
  ELSE [mem |-> m, exc |-> "ValidationError"]

Failed(w, exc) == [w |-> w, exc |-> exc, ret |-> FALSE]

\* lines 555-566 and 595-606: the cache is set only when the graph store
\* reported success, with source.dict(), which is not JSON
RelationCache(r, h, src) ==
  IF r.exc # "none" THEN Failed(r.w, r.exc)
  ELSE IF ~r.ret THEN Failed(r.w, "none")
  ELSE [w |-> CacheStore_set(r.w, h, src, r.w.cache[src], FALSE).w,
        exc |-> "none", ret |-> TRUE]

\* lines 537-553: the source object (the one the local cache holds) gets the
\* relation, then the graph store is called
AddToObject(w, h, src, tgt, a) ==
  IF a.exc # "none" THEN Failed(w, a.exc)
  ELSE RelationCache(
         GraphStore_add_relation([w EXCEPT !.cache[src] = a.mem], h, src, tgt),
         h, src)

AddTarget(g, h, src, tgt) ==
  IF g.exc # "none" \/ ~g.found THEN Failed(g.w, g.exc)
  ELSE AddToObject(g.w, h, src, tgt, Memory_add_relation(g.w.cache[src], tgt))

AddSource(s, h, src, tgt, t) ==
  IF s.exc # "none" \/ ~s.found THEN Failed(s.w, s.exc)
  ELSE AddTarget(retrieve_memory(s.w, h, tgt, t), h, src, tgt)

add_relation(w, h, src, tgt, t) ==
  AddSource(retrieve_memory(w, h, src, t), h, src, tgt, t)

\* lines 586-593
RemoveFromObject(w, h, src, tgt, a) ==
  IF a.exc # "none" THEN Failed(w, a.exc)
  ELSE RelationCache(
         GraphStore_delete_relation([w EXCEPT !.cache[src] = a.mem], h, src, tgt),
         h, src)

RemoveSource(s, h, src, tgt) ==
  IF s.exc # "none" \/ ~s.found THEN Failed(s.w, s.exc)
  ELSE RemoveFromObject(s.w, h, src, tgt,
                        Memory_remove_relation(s.w.cache[src], tgt))

remove_relation(w, h, src, tgt, t) ==
  RemoveSource(retrieve_memory(w, h, src, t), h, src, tgt)

\* ------------------------------------------------------------------------
\* The state machine: one action per manager call
\* ------------------------------------------------------------------------
NoCall ==
  [op |-> "init", id |-> 0, tgt |-> 0, exc |-> "none", ret |-> FALSE,
   mem |-> NoMemory, ran |-> <<>>, comp |-> <<>>, intx |-> FALSE,
   tier |-> "none", content |-> "", memory_type |-> "", importance |-> 0,
   healthy |-> FALSE, h |-> Healthy, attempts |-> 0, value |-> 0,
   before |-> NoMemory, vector |-> 0, given |-> <<>>, results |-> <<>>]

NoHist ==
  [wrote |-> [i \in Ids |-> "none"],
   del |-> [i \in Ids |-> [res |-> "none", healthy |-> FALSE]],
   seen |-> [i \in Ids |-> [count |-> 0, at |-> 0]]]

\* no worker thread is inside a call; nobody holds the lock
Idle == [i \in {} |-> 0]
Free == [holder |-> 0, expires |-> 0]

\* MemoryManager.__init__ (lines 67-93) over empty stores
Init ==
  /\ cache = Empty
  /\ redis = Empty
  /\ graph = Empty
  /\ grels = {}
  /\ vstore = {}
  /\ in_transaction = FALSE
  /\ transaction_operations = <<>>
  /\ nextId = 0
  /\ now = 0
  /\ last = NoCall
  /\ hist = NoHist
  /\ pc = Idle
  /\ lock = Free

\* the world after a call becomes the state
Becomes(w) ==
  /\ cache' = w.cache
  /\ redis' = w.redis
  /\ graph' = w.graph
  /\ grels' = w.grels
  /\ vstore' = w.vstore
  /\ in_transaction' = w.intx
  /\ transaction_operations' = w.ops
  /\ UNCHANGED <<pc, lock>>

Clock == now < MaxTime /\ now' = now + 1

\* how the writes of the stores in ops ended: every id of a commit that
\* raised, and every id one of whose writes reported failure, is "failed"
Wrote(h0, ops, raised, bad) ==
  [i \in Ids |->
     IF \E k \in 1..Len(ops) : ops[k].mem.id = i
     THEN IF raised \/ i \in bad THEN "failed" ELSE "ok"
     ELSE h0[i]]

StoreMemory ==
  \E a \in StoreInputs, h \in Healths :
    LET id == nextId + 1
        r == store_memory(World, h, id, a.content, a.memory_type,
                          a.importance, a.vector, now)
        made == r.exc # "ValidationError"
    IN /\ nextId < MaxIds
       /\ Clock
       /\ Becomes(r.w)
       /\ nextId' = IF made THEN id ELSE nextId
       /\ last' = [NoCall EXCEPT !.op = "store", !.id = IF made THEN id ELSE 0,
                                 !.exc = r.exc, !.ret = r.exc = "none",
                                 !.mem = r.mem, !.ran = r.ran,
                                 !.intx = in_transaction,
                                 !.content = a.content,
                                 !.memory_type = a.memory_type,
                                 !.importance = a.importance,
                                 !.vector = a.vector,
                                 !.healthy = (h = Healthy)]
       /\ hist' = IF ~made THEN hist
                  ELSE [hist EXCEPT !.wrote[id] =
                          IF in_transaction THEN "pending"
                          ELSE IF r.exc = "none" /\ r.wrote THEN "ok"
                          ELSE "failed"]

TransactionEnter ==
  LET r == transaction_enter(World)
  IN /\ Clock
     /\ Becomes(r.w)
     /\ last' = [NoCall EXCEPT !.op = "transaction", !.exc = r.exc,
                               !.ret = r.exc = "none", !.intx = in_transaction]
     /\ UNCHANGED <<nextId, hist>>

TransactionCommit ==
  \E h \in Healths :
    LET r == transaction_commit(World, h)
    IN /\ in_transaction
       /\ Clock
       /\ Becomes(r.w)
       /\ last' = [NoCall EXCEPT !.op = "commit", !.exc = r.exc,
                                 !.ret = r.exc = "none", !.ran = r.ran,
                                 !.comp = r.comp, !.intx = TRUE]
       /\ hist' = [hist EXCEPT !.wrote =
                     Wrote(@, transaction_operations, r.exc # "none", r.bad)]
       /\ UNCHANGED nextId

\* the block raises (a nested transaction(), or anything else)
TransactionAbort ==
  \E h \in Healths :
    LET r == transaction_abort(World, h)
    IN /\ in_transaction
       /\ Clock
       /\ Becomes(r.w)
       /\ last' = [NoCall EXCEPT !.op = "abort", !.exc = r.exc,
                                 !.comp = r.comp, !.intx = TRUE]
       /\ hist' = [hist EXCEPT !.wrote =
                     Wrote(@, transaction_operations, TRUE, {})]
       /\ UNCHANGED nextId

RetrieveMemory ==
  \E id \in Ids, h \in Healths :
    LET r == retrieve_memory(World, h, id, now)
    IN /\ Clock
       /\ Becomes(r.w)
       /\ last' = [NoCall EXCEPT !.op = "retrieve", !.id = id, !.exc = r.exc,
                                 !.ret = r.found, !.mem = r.mem,
                                 !.intx = in_transaction, !.tier = r.tier,
                                 !.healthy = (h = Healthy), !.h = h,
                                 !.attempts = r.attempts]
       /\ hist' = IF r.found
                  THEN [hist EXCEPT !.seen[id] =
                          [count |-> r.mem.access_count,
                           at |-> r.mem.accessed_at]]
                  ELSE hist
       /\ UNCHANGED nextId

Updates ==
  { [content |-> "b", importance |-> 0, status |-> ""],
    [content |-> "", importance |-> 9, status |-> ""],
    [content |-> "", importance |-> 0, status |-> "deleted"],
    [content |-> "", importance |-> 0, status |-> "active"] }

UpdateMemory ==
  \E id \in Ids, u \in Updates, sticks \in BOOLEAN, h \in Healths :
    LET r == update_memory(World, h, id, u, sticks, now)
    IN /\ Clock
       /\ Becomes(r.w)
       /\ last' = [NoCall EXCEPT !.op = "update", !.id = id, !.exc = r.exc,
                                 !.ret = r.found, !.mem = r.mem,
                                 !.intx = in_transaction,
                                 !.healthy = (h = Healthy)]
       /\ UNCHANGED <<nextId, hist>>

DeleteMemory ==
  \E id \in Ids, h \in Healths :
    LET r == delete_memory(World, h, id)
    IN /\ Clock
       /\ Becomes(r.w)
       /\ last' = [NoCall EXCEPT !.op = "delete", !.id = id, !.exc = r.exc,
                                 !.ret = r.ret, !.intx = in_transaction,
                                 !.healthy = (h = Healthy)]
       /\ hist' = [hist EXCEPT !.del[id] =
                     [res |-> IF r.exc # "none" THEN "raised"
                              ELSE IF r.ret THEN "true" ELSE "false",
                      healthy |-> h = Healthy]]
       /\ UNCHANGED nextId

AddRelation ==
  \E src \in Ids, tgt \in Ids, h \in Healths :
    LET r == add_relation(World, h, src, tgt, now)
    IN /\ Clock
       /\ Becomes(r.w)
       /\ last' = [NoCall EXCEPT !.op = "add_relation", !.id = src,
                                 !.tgt = tgt, !.exc = r.exc, !.ret = r.ret,
                                 !.intx = in_transaction,
                                 !.healthy = (h = Healthy)]
       /\ UNCHANGED <<nextId, hist>>

RemoveRelation ==
  \E src \in Ids, tgt \in Ids, h \in Healths :
    LET r == remove_relation(World, h, src, tgt, now)
    IN /\ Clock
       /\ Becomes(r.w)
       /\ last' = [NoCall EXCEPT !.op = "remove_relation", !.id = src,
                                 !.tgt = tgt, !.exc = r.exc, !.ret = r.ret,
                                 !.intx = in_transaction,
                                 !.healthy = (h = Healthy)]
       /\ UNCHANGED <<nextId, hist>>

\* a new process: MemoryManager.__init__ (lines 84-91) over the same stores
Restart ==
  /\ Clock
  /\ cache' = Empty
  /\ in_transaction' = FALSE
  /\ transaction_operations' = <<>>
  /\ last' = [NoCall EXCEPT !.op = "restart"]
  /\ UNCHANGED <<redis, graph, grels, vstore, nextId, hist, pc, lock>>

\* Redis drops a key whose ttl (CacheStore.set, ex=ttl) has run out
ExpireKey ==
  \E id \in DOMAIN redis :
    /\ Clock
    /\ redis' = Drop(redis, id)
    /\ last' = [NoCall EXCEPT !.op = "expire", !.id = id]
    /\ UNCHANGED <<cache, graph, grels, vstore, in_transaction,
                   transaction_operations, nextId, hist, pc, lock>>

Next ==
  \/ StoreMemory
  \/ TransactionEnter
  \/ TransactionCommit
  \/ TransactionAbort
  \/ RetrieveMemory
  \/ UpdateMemory
  \/ DeleteMemory
  \/ AddRelation
  \/ RemoveRelation
  \/ Restart
  \/ ExpireKey

Spec == Init /\ [][Next]_vars

\* The calls that store and read back, with and without a transaction
NextTxn ==
  \/ StoreMemory
  \/ TransactionEnter
  \/ TransactionCommit
  \/ TransactionAbort
  \/ RetrieveMemory
  \/ DeleteMemory
  \/ Restart

SpecTxn == Init /\ [][NextTxn]_vars

\* ------------------------------------------------------------------------
\* Worker threads of one process calling retrieve_memory and update_memory
\* on the memory stored last.  A call is a sequence of steps; between two
\* steps the other threads and the clock (in seconds) may move.
\* ------------------------------------------------------------------------
Workers == 1..MaxWorkers

NoUpdate == [content |-> "", importance |-> 0, status |-> ""]
NoProps == [content |-> "", importance |-> 0, status |-> "", updated_at |-> 0]

\* the update_memory calls the workers make
WorkerUpdates ==
  { [NoUpdate EXCEPT !.content = "c"], [NoUpdate EXCEPT !.importance = 7] }

\* a worker between calls; done is the update its last update_memory call
\* returned from
IdleWorker ==
  [at |-> "idle", op |-> "", u |-> NoUpdate, since |-> 0, attempt |-> 0,
   calls |-> 0, props |-> NoProps, done |-> NoUpdate]

EmptyWorld ==
  [cache |-> Empty, redis |-> Empty, graph |-> Empty, grels |-> {},
   vstore |-> {}, intx |-> FALSE, ops |-> <<>>]

\* one memory has been stored, outside a transaction, with every store up
InitConc ==
  \E a \in StoreInputs :
    LET r == store_memory(EmptyWorld, Healthy, 1, a.content, a.memory_type,
                          a.importance, a.vector, 0)
    IN /\ r.exc = "none"
       /\ cache = r.w.cache
       /\ redis = r.w.redis
       /\ graph = r.w.graph
       /\ grels = r.w.grels
       /\ vstore = r.w.vstore
       /\ in_transaction = FALSE
       /\ transaction_operations = <<>>
       /\ nextId = 1
       /\ now = 0
       /\ last = NoCall
       /\ hist = NoHist
       /\ pc = [w \in Workers |-> IdleWorker]
       /\ lock = Free

\* the stores and the local cache become those of world w; the rest stays
WorkerBecomes(w) ==
  /\ cache' = w.cache
  /\ redis' = w.redis
  /\ graph' = w.graph
  /\ grels' = w.grels
  /\ vstore' = w.vstore
  /\ UNCHANGED <<in_transaction, transaction_operations, nextId, now, hist>>

Held == lock.holder # 0 /\ lock.expires > now

\* a thread enters retrieve_memory(id), directly or as the first statement
\* of update_memory (line 416), and asks for the lock (line 305)
WorkerCall(w) ==
  \E op \in {"retrieve", "update"} :
    \E u \in IF op = "update" THEN WorkerUpdates ELSE {NoUpdate} :
      /\ pc[w].at = "idle"
      /\ pc[w].calls < MaxCalls
      /\ pc' = [pc EXCEPT ![w] = [@ EXCEPT !.at = "wait", !.op = op, !.u = u,
                                           !.since = now, !.attempt = 1,
                                           !.props = NoProps]]
      /\ UNCHANGED <<cache, redis, graph, grels, vstore, in_transaction,
                     transaction_operations, nextId, now, last, hist, lock>>

\* Lock.acquire(blocking=True, blocking_timeout=None): SET NX PX succeeds
\* once the key is absent; until then the thread sleeps and tries again,
\* without limit.  timeout is the key's time to live.
WorkerAcquire(w) ==
  /\ pc[w].at = "wait"
  /\ ~Held
  /\ lock' = [holder |-> w, expires |-> now + LockTimeout]
  /\ pc' = [pc EXCEPT ![w] = [@ EXCEPT !.at = "locked", !.since = 0]]
  /\ UNCHANGED <<cache, redis, graph, grels, vstore, in_transaction,
                 transaction_operations, nextId, now, last, hist>>

\* the call returns or raises: the thread is between calls again
Returned(p, done) ==
  [IdleWorker EXCEPT !.calls = p.calls + 1, !.done = done]

\* after an attempt that raised: tenacity sleeps RetryWait seconds and calls
\* again, or gives up
Again(p) ==
  IF p.attempt < MaxAttempts
  THEN [p EXCEPT !.at = "sleep", !.attempt = @ + 1, !.since = now]
  ELSE Returned(p, p.done)

\* the body of the with-block, then Lock.release(): it raises
\* LockNotOwnedError when the key has expired or belongs to another thread
WorkerLocked(w) ==
  LET r == RetrieveLocked(World, Healthy, nextId, now)
      owned == lock.holder = w /\ lock.expires > now
      ok == owned /\ r.exc = "none"
  IN /\ pc[w].at = "locked"
     /\ WorkerBecomes(r.w)
     /\ lock' = IF owned THEN Free ELSE lock
     /\ pc' = [pc EXCEPT ![w] =
                 IF ~ok THEN Again(@)
                 ELSE IF @.op = "update" /\ r.found THEN [@ EXCEPT !.at = "assign"]
                 ELSE Returned(@, @.done)]
     /\ last' = IF ok /\ pc[w].op = "update" /\ r.found THEN last
                ELSE [NoCall EXCEPT
                        !.op = pc[w].op, !.id = nextId,
                        !.exc = IF ok THEN "none"
                                ELSE IF pc[w].attempt < MaxAttempts
                                     THEN "LockNotOwnedError" ELSE "RetryError",
                        !.ret = ok /\ r.found,
                        !.mem = IF ok THEN r.mem ELSE NoMemory]

\* the sleep between two attempts is over: the thread asks for the lock again
WorkerRetry(w) ==
  /\ pc[w].at = "sleep"
  /\ now >= pc[w].since + RetryWait
  /\ pc' = [pc EXCEPT ![w] = [@ EXCEPT !.at = "wait", !.since = now]]
  /\ UNCHANGED <<cache, redis, graph, grels, vstore, in_transaction,
                 transaction_operations, nextId, now, last, hist, lock>>

\* update_memory lines 420-441: the fields are assigned on the object the
\* local cache holds, and the properties for the graph store are read from it
WorkerAssign(w) ==
  LET a == AssignFields(cache[nextId], pc[w].u, FALSE, now) IN
  /\ pc[w].at = "assign"
  /\ cache' = [cache EXCEPT ![nextId] = a.mem]
  /\ pc' = [pc EXCEPT ![w] =
              IF a.exc # "none" THEN Returned(@, @.done)
              ELSE [@ EXCEPT !.at = "write",
                             !.props = [content |-> a.mem.content,
                                        importance |-> a.mem.importance,
                                        status |-> a.mem.status,
                                        updated_at |-> a.mem.updated_at]]]
  /\ UNCHANGED <<redis, graph, grels, vstore, in_transaction,
                 transaction_operations, nextId, now, last, hist, lock>>

\* update_memory lines 433-452: the properties reach the graph store, the
\* cache is set, the object is returned
WorkerWrite(w) ==
  LET r == UpdateCache(
             GraphStore_update_node_by_property(World, Healthy, nextId,
                                                pc[w].props),
             Healthy, nextId, cache[nextId])
  IN /\ pc[w].at = "write"
     /\ WorkerBecomes(r.w)
     /\ pc' = [pc EXCEPT ![w] = Returned(@, @.u)]
     /\ last' = [NoCall EXCEPT !.op = "update", !.id = nextId,
                               !.exc = r.exc, !.ret = r.found, !.mem = r.mem]
     /\ UNCHANGED lock

\* TickSeconds seconds pass.  Time passes while some thread is inside a
\* call, and not while a thread asks for a lock that is free: SET NX answers
\* at once.
Tick ==
  /\ now < MaxClock
  /\ \E w \in Workers : pc[w].at # "idle"
  /\ \A w \in Workers : pc[w].at = "wait" => Held
  /\ now' = now + TickSeconds
  /\ UNCHANGED <<cache, redis, graph, grels, vstore, in_transaction,
                 transaction_operations, nextId, last, hist, pc, lock>>

NextConc ==
  \/ \E w \in Workers : WorkerCall(w)
  \/ \E w \in Workers : WorkerAcquire(w)
  \/ \E w \in Workers : WorkerLocked(w)
  \/ \E w \in Workers : WorkerRetry(w)
  \/ \E w \in Workers : WorkerAssign(w)
  \/ \E w \in Workers : WorkerWrite(w)
  \/ Tick

SpecConc == InitConc /\ [][NextConc]_vars

\* ========================================================================
\* core/memory/memory_types.py: the handlers of the four memory types, and
\* MemoryManager._get_cache_ttl
\* ========================================================================
\* Timestamps are whole minutes. A timestamp is "utc" (timezone-aware: the
\* field defaults of Memory and Memory.update_access use
\* datetime.now(timezone.utc)) or "naive" (assigned by the caller from
\* datetime.utcnow()). The handlers read the clock with datetime.utcnow();
\* Python raises TypeError on the difference of a naive and an aware value.
MemoryTypes == {"short_term", "long_term", "working", "skill"}

\* The Memory a handler is given. relations is the list of target ids,
\* content_len is len(content); vector is 0 for None.
HandlerMemory(ty, imp, ac, rels, vec, len, created, accessed, ctz, atz) ==
  [id |-> 1, content |-> "a", memory_type |-> ty, importance |-> imp,
   status |-> "active", vector |-> vec, relations |-> rels,
   created_at |-> created, updated_at |-> created, accessed_at |-> accessed,
   access_count |-> ac, content_len |-> len, created_tz |-> ctz,
   accessed_tz |-> atz]

Min(a, b) == IF a <= b THEN a ELSE b
Max(a, b) == IF a >= b THEN a ELSE b

\* Python's round() of the fraction num/den (den > 0): to the nearest
\* integer, a tie to the even one
RoundHalfEven(num, den) ==
  LET q == num \div den
      r == num % den
  IN IF 2 * r < den THEN q
     ELSE IF 2 * r > den THEN q + 1
     ELSE IF q % 2 = 0 THEN q ELSE q + 1

Raised(exc) == [exc |-> exc, value |-> 0]
Returned_value(v) == [exc |-> "none", value |-> v]

\* ShortTermMemoryHandler.calculate_importance (lines 137-161), in sixtieths:
\* access_count/5 and len(relations)/3 capped at 2, an hour of age costs 1,
\* at most 2
ShortTerm_calculate_importance(m, t) ==
  IF m.created_tz = "utc" THEN Raised("TypeError")
  ELSE Returned_value(
         Max(1, Min(10, RoundHalfEven(
           60 * m.importance + Min(12 * m.access_count, 120)
             + Min(20 * Len(m.relations), 120)
             - Min(t - m.created_at, 120), 60))))

\* LongTermMemoryHandler.calculate_importance (lines 249-273), in 43200ths
\* (the minutes of 30 days): len(relations)/2 capped at 3, access_count/10
\* capped at 2, 30 days of age cost 1, at most 1; never below 5
LongTerm_calculate_importance(m, t) ==
  IF m.created_tz = "utc" THEN Raised("TypeError")
  ELSE Returned_value(
         Max(5, Min(10, RoundHalfEven(
           43200 * m.importance + Min(21600 * Len(m.relations), 129600)
             + Min(4320 * m.access_count, 86400)
             - Min(t - m.created_at, 43200), 43200))))

\* WorkingMemoryHandler.calculate_importance (lines 352-371), in fifths:
\* access_count capped at 3, five minutes of age cost 1, at most 3
Working_calculate_importance(m, t) ==
  IF m.created_tz = "utc" THEN Raised("TypeError")
  ELSE Returned_value(
         Max(1, Min(10, RoundHalfEven(
           5 * m.importance + 5 * Min(m.access_count, 3)
             - Min(t - m.created_at, 15), 5))))

\* SkillMemoryHandler.calculate_importance (lines 453-475), in 500ths:
\* access_count/20 capped at 4, len(relations)/2 capped at 3,
\* len(content)/500 capped at 3; no timestamp is read
Skill_calculate_importance(m, t) ==
  Returned_value(
    Max(1, Min(10, RoundHalfEven(
      500 * m.importance + Min(25 * m.access_count, 2000)
        + Min(250 * Len(m.relations), 1500)
        + Min(m.content_len, 1500), 500))))

\* MemoryTypeRegistry.get_handler(kind).calculate_importance(memory)
calculate_importance(kind, m, t) ==
  CASE kind = "short_term" -> ShortTerm_calculate_importance(m, t)
    [] kind = "long_term" -> LongTerm_calculate_importance(m, t)
    [] kind = "working" -> Working_calculate_importance(m, t)
    [] OTHER -> Skill_calculate_importance(m, t)

\* the memory_type optimize assigns for the importance it has just written;
\* "" when it assigns none (lines 207-208, 313-314, 411-415, 509-510)
NewType(kind, importance) ==
  CASE kind = "short_term" ->
         IF importance >= 7 THEN "long_term" ELSE ""
    [] kind = "long_term" ->
         IF importance < 5 THEN "short_term" ELSE ""
    [] kind = "working" ->
         IF importance >= 7 THEN "long_term"
         ELSE IF importance >= 4 THEN "short_term" ELSE ""
    [] OTHER -> ""

\* the second assignment of optimize
AssignType(kind, a, sticks) ==
  Assign(a, "memory_type", NewType(kind, a.mem.importance),
         NewType(kind, a.mem.importance) # "", sticks)

\* <Handler>.optimize (lines 193-210, 300-317, 398-418, 497-510):
\* memory.importance = self.calculate_importance(memory), then the type;
\* both are assignments of a validated model
optimize(kind, m, t, sticks) ==
  LET c == calculate_importance(kind, m, t) IN
  IF c.exc # "none" THEN [mem |-> m, exc |-> c.exc]
  ELSE AssignType(kind,
         Assign([mem |-> m, exc |-> "none"], "importance", c.value, TRUE,
                sticks),
         sticks)

Answer(b) == [exc |-> "none", ret |-> b]
NoAnswer(exc) == [exc |-> exc, ret |-> FALSE]

\* ShortTermMemoryHandler.should_forget (lines 163-191): older than 24 h,
\* importance below 3, not accessed for 12 h, or no relation
ShortTerm_should_forget(m, t) ==
  IF m.created_tz = "utc" THEN NoAnswer("TypeError")
  ELSE IF t - m.created_at > 1440 THEN Answer(TRUE)
  ELSE IF m.importance < 3 THEN Answer(TRUE)
  ELSE IF m.accessed_tz = "utc" THEN NoAnswer("TypeError")
  ELSE IF t - m.accessed_at > 720 THEN Answer(TRUE)
  ELSE Answer(m.relations = <<>>)

\* LongTermMemoryHandler.should_forget (lines 275-298): importance below 5,
\* not accessed for 90 days, or fewer than 2 relations
LongTerm_should_forget(m, t) ==
  IF m.importance < 5 THEN Answer(TRUE)
  ELSE IF m.accessed_tz = "utc" THEN NoAnswer("TypeError")
  ELSE IF t - m.accessed_at > 129600 THEN Answer(TRUE)
  ELSE Answer(Len(m.relations) < 2)

\* WorkingMemoryHandler.should_forget (lines 373-396): older than 1 h,
\* importance below 2, or not accessed for 30 minutes
Working_should_forget(m, t) ==
  IF m.created_tz = "utc" THEN NoAnswer("TypeError")
  ELSE IF t - m.created_at > 60 THEN Answer(TRUE)
  ELSE IF m.importance < 2 THEN Answer(TRUE)
  ELSE IF m.accessed_tz = "utc" THEN NoAnswer("TypeError")
  ELSE Answer(t - m.accessed_at > 30)

\* SkillMemoryHandler.should_forget (lines 477-495): not accessed for a
\* year, or importance below 3
Skill_should_forget(m, t) ==
  IF m.accessed_tz = "utc" THEN NoAnswer("TypeError")
  ELSE IF t - m.accessed_at > 525600 THEN Answer(TRUE)
  ELSE Answer(m.importance < 3)

should_forget(kind, m, t) ==
  CASE kind = "short_term" -> ShortTerm_should_forget(m, t)
    [] kind = "long_term" -> LongTerm_should_forget(m, t)
    [] kind = "working" -> Working_should_forget(m, t)
    [] OTHER -> Skill_should_forget(m, t)

\* Memory.update_access (memory_model.py lines 368-371) on a handler's
\* memory: accessed_at becomes datetime.now(timezone.utc)
Memory_update_access(m, t) ==
  [update_access(m, t) EXCEPT !.accessed_tz = "utc"]

\* int() of a product of binary floating-point numbers: for these
\* arguments 3600 * (importance / 5.0) * (access_count / 10.0 + 1) falls
\* just below the integer it equals in exact arithmetic
FloatLoss(importance, access_count) ==
  IF access_count = 4 /\ importance \in {1, 2, 4, 8} THEN 1 ELSE 0

\* MemoryManager._get_cache_ttl (lines 654-673):
\* int(3600 * (importance / 5.0) * min(access_count / 10.0 + 1, 2))
get_cache_ttl(m) ==
  72 * m.importance * Min(m.access_count + 10, 20)
    - FloatLoss(m.importance, m.access_count)

\* <Handler>.should_store (lines 119-135, 227-247, 334-350, 435-451): the
\* tests of each handler on len(content), importance and len(relations)
should_store(kind, m) ==
  CASE kind = "short_term" -> ~(m.content_len > 1000) /\ ~(m.importance > 7)
    [] kind = "long_term" ->
         /\ ~(m.importance < 7)
         /\ ~(Len(m.relations) < 2)
         /\ ~(m.content_len < 50)
    [] kind = "working" -> ~(m.content_len > 500) /\ ~(Len(m.relations) > 5)
    [] OTHER -> ~(m.content_len < 100) /\ ~(Len(m.relations) < 3)

\* ------------------------------------------------------------------------
\* The handlers as functions of their argument: one call on a memory drawn
\* from the inputs below
\* ------------------------------------------------------------------------
Importances == 1..MaxImportance
AccessCounts == {0, 4, 20}
RelationLists == {<<>>, <<2>>, <<2, 3, 4>>}
\* minutes since creation and since the last access; none on a threshold
Ages ==
  { [age |-> 0, idle |-> 0], [age |-> 1, idle |-> 1], [age |-> 29, idle |-> 29],
    [age |-> 31, idle |-> 31], [age |-> 59, idle |-> 29],
    [age |-> 59, idle |-> 31], [age |-> 61, idle |-> 1] }
\* both timestamps as Memory() sets them; both assigned from utcnow();
\* accessed_at alone assigned from utcnow(), as test_memory_types.py does
Zones ==
  { [created |-> "utc", accessed |-> "utc"],
    [created |-> "naive", accessed |-> "naive"],
    [created |-> "utc", accessed |-> "naive"] }
ContentLens(mtype) ==
  CASE mtype = "skill" -> {10, 600, 2000}
    [] mtype = "long_term" -> {10, 600}
    [] OTHER -> {10}

\* the memories Memory(...) can build: validate_memory holds of them
HandlerMemories ==
  { m \in { HandlerMemory(ty, imp, ac, rels, vec, len, 0 - a.age,
                          0 - a.idle, z.created, z.accessed) :
              ty \in MemoryTypes, imp \in Importances, ac \in AccessCounts,
              rels \in RelationLists, vec \in {0, EmbeddingDimension},
              len \in {10, 600, 2000}, a \in Ages, z \in Zones } :
      validate_memory(m) /\ m.content_len \in ContentLens(m.memory_type) }

\* the stores are not touched by the handlers
NoStores ==
  /\ redis = Empty
  /\ graph = Empty
  /\ grels = {}
  /\ vstore = {}
  /\ in_transaction = FALSE
  /\ transaction_operations = <<>>
  /\ nextId = 1
  /\ hist = NoHist
  /\ pc = Idle
  /\ lock = Free

InitHandlers ==
  /\ \E m \in HandlerMemories : cache = Put(Empty, 1, m)
  /\ now = 0
  /\ last = NoCall
  /\ NoStores

StoresUnchanged ==
  UNCHANGED <<redis, graph, grels, vstore, in_transaction,
              transaction_operations, nextId, hist, pc, lock>>

\* registry.get_handler(memory.memory_type).calculate_importance(memory)
CalculateImportance ==
  LET r == calculate_importance(cache[1].memory_type, cache[1], now)
  IN /\ last.op = "init"
     /\ last' = [NoCall EXCEPT !.op = "calculate_importance", !.id = 1,
                               !.exc = r.exc, !.value = r.value,
                               !.before = cache[1]]
     /\ UNCHANGED <<cache, now>>
     /\ StoresUnchanged

\* registry.get_handler(memory.memory_type).should_store(memory)
ShouldStore ==
  /\ last.op = "init"
  /\ last' = [NoCall EXCEPT !.op = "should_store", !.id = 1,
                            !.ret = should_store(cache[1].memory_type, cache[1]),
                            !.before = cache[1]]
  /\ UNCHANGED <<cache, now>>
  /\ StoresUnchanged

\* registry.get_handler(memory.memory_type).should_forget(memory)
ShouldForget ==
  LET r == should_forget(cache[1].memory_type, cache[1], now)
  IN /\ last.op = "init"
     /\ last' = [NoCall EXCEPT !.op = "should_forget", !.id = 1,
                               !.exc = r.exc, !.ret = r.ret,
                               !.before = cache[1]]
     /\ UNCHANGED <<cache, now>>
     /\ StoresUnchanged

\* registry.get_handler(memory.memory_type).optimize(memory); the memory is
\* changed in place
Optimized(m, r) ==
  [NoCall EXCEPT !.op = "optimize", !.id = 1, !.exc = r.exc,
                 !.ret = (r.exc = "none"), !.before = m,
                 !.value = r.mem.importance]

Optimize ==
  \E sticks \in BOOLEAN :
    LET r == optimize(cache[1].memory_type, cache[1], now, sticks)
    IN /\ last.op = "init"
       /\ cache' = Put(Empty, 1, r.mem)
       /\ last' = Optimized(cache[1], r)
       /\ UNCHANGED now
       /\ StoresUnchanged

\* self._get_cache_ttl(memory)
CacheTtl ==
  /\ last.op = "init"
  /\ last' = [NoCall EXCEPT !.op = "get_cache_ttl", !.id = 1,
                            !.value = get_cache_ttl(cache[1]),
                            !.before = cache[1]]
  /\ UNCHANGED <<cache, now>>
  /\ StoresUnchanged

NextHandlers ==
  \/ ShouldStore
  \/ CalculateImportance
  \/ ShouldForget
  \/ Optimize
  \/ CacheTtl

SpecHandlers == InitHandlers /\ [][NextHandlers]_vars

\* ------------------------------------------------------------------------
\* The life of one memory: accesses, optimizations by the handler of its
\* current type, and time passing
\* ------------------------------------------------------------------------
\* a memory a minute old, never accessed, with its timestamps as Memory()
\* sets them or as a caller assigned them from utcnow()
LifeMemories ==
  { HandlerMemory(ty, imp, 0, rels, EmbeddingDimension, 10, 0 - 1, 0 - 1,
                  z, z) :
      ty \in MemoryTypes, imp \in {2, 5}, rels \in {<<>>, <<2>>},
      z \in {"utc", "naive"} }

InitLife ==
  /\ \E m \in LifeMemories : cache = Put(Empty, 1, m)
  /\ now = 0
  /\ last = NoCall
  /\ NoStores

\* memory.update_access()
LifeAccess ==
  /\ cache[1].access_count < MaxAccessCount
  /\ cache' = Put(Empty, 1, Memory_update_access(cache[1], now))
  /\ last' = [NoCall EXCEPT !.op = "access", !.id = 1, !.before = cache[1]]
  /\ UNCHANGED now
  /\ StoresUnchanged

LifeOptimize ==
  \E sticks \in BOOLEAN :
    LET r == optimize(cache[1].memory_type, cache[1], now, sticks)
    IN /\ cache' = Put(Empty, 1, r.mem)
       /\ last' = Optimized(cache[1], r)
       /\ UNCHANGED now
       /\ StoresUnchanged

LifeForget ==
  LET r == should_forget(cache[1].memory_type, cache[1], now)
  IN /\ last' = [NoCall EXCEPT !.op = "should_forget", !.id = 1,
                               !.exc = r.exc, !.ret = r.ret,
                               !.before = cache[1]]
     /\ UNCHANGED <<cache, now>>
     /\ StoresUnchanged

LifeTick ==
  /\ now < MaxLifeClock
  /\ now' = now + TickMinutes
  /\ last' = [NoCall EXCEPT !.op = "tick"]
  /\ UNCHANGED cache
  /\ StoresUnchanged

NextLife ==
  \/ LifeAccess
  \/ LifeOptimize
  \/ LifeForget
  \/ LifeTick

SpecLife == InitLife /\ [][NextLife]_vars

\* ------------------------------------------------------------------------
\* A manager over two stored memories: the calls that change a memory's
\* status and relations
\* ------------------------------------------------------------------------
\* two memories have been stored with the same arguments, outside a
\* transaction, with every store up
InitStored ==
  \E a \in StoreInputs :
    LET r == store_memory(EmptyWorld, Healthy, 1, a.content, a.memory_type,
                          a.importance, a.vector, 0)
        q == store_memory(r.w, Healthy, 2, a.content, a.memory_type,
                          a.importance, a.vector, 0)
    IN /\ r.exc = "none"
       /\ q.exc = "none"
       /\ cache = q.w.cache
       /\ redis = q.w.redis
       /\ graph = q.w.graph
       /\ grels = q.w.grels
       /\ vstore = q.w.vstore
       /\ in_transaction = FALSE
       /\ transaction_operations = <<>>
       /\ nextId = 2
       /\ now = 0
       /\ last = NoCall
       /\ hist = NoHist
       /\ pc = Idle
       /\ lock = Free

NextStored ==
  \/ RetrieveMemory
  \/ UpdateMemory
  \/ AddRelation
  \/ RemoveRelation
  \/ Restart

SpecStored == InitStored /\ [][NextStored]_vars

\* ------------------------------------------------------------------------
\* MemoryManager.cleanup (lines 608-640)
\* ------------------------------------------------------------------------
\* MEMORY_TIMEOUT in seconds and IMPORTANCE_THRESHOLD (utils/config.py)
MemoryTimeout == 604800
ImportanceThreshold == 7

\* now - memory.<field> with now = datetime.utcnow(): the fields of Memory
\* are made by datetime.now(timezone.utc) (memory_model.py lines 346-357)
\* and keep their offset through isoformat and fromisoformat, so a naive
\* datetime meets an aware one and the subtraction raises TypeError
Since(t, at, zone) ==
  IF zone = "utc" THEN Raised("TypeError") ELSE Returned_value(t - at)

\* the three tests of the loop body (lines 624-636), in their order
should_delete(m, t) ==
  LET age == Since(t, m.created_at, "utc")
      idle == Since(t, m.accessed_at, "utc")
  IN IF age.exc # "none" THEN age
     ELSE IF idle.exc # "none" THEN idle
     ELSE Returned_value(\/ age.value > MemoryTimeout
                         \/ m.importance < ImportanceThreshold
                         \/ idle.value > MemoryTimeout)

\* the loop over list(self._cache.values()) from memory i on; an exception
\* of a test or of delete_memory leaves cleanup
RECURSIVE CleanupEach(_, _, _, _, _)
CleanupEach(w, h, memories, i, t) ==
  IF i > Len(memories) THEN [w |-> w, exc |-> "none"]
  ELSE LET d == should_delete(memories[i], t) IN
       IF d.exc # "none" THEN [w |-> w, exc |-> d.exc]
       ELSE IF ~d.value THEN CleanupEach(w, h, memories, i + 1, t)
       ELSE LET r == delete_memory(w, h, memories[i].id) IN
            IF r.exc # "none" THEN [w |-> r.w, exc |-> r.exc]
            ELSE CleanupEach(r.w, h, memories, i + 1, t)

cleanup(w, h, t) ==
  LET n == Cardinality(DOMAIN w.cache)
      ids == CHOOSE q \in [1..n -> DOMAIN w.cache] :
               \A i \in 1..n, j \in 1..n : i < j => q[i] < q[j]
  IN CleanupEach(w, h, [i \in 1..n |-> w.cache[ids[i]]], 1, t)

\* cleanup(), run at once or more than the timeout after the last call
Cleanup ==
  \E h \in Healths, late \in {0, MemoryTimeout + 1} :
    LET r == cleanup(World, h, now + late)
    IN /\ Clock
       /\ Becomes(r.w)
       /\ last' = [NoCall EXCEPT !.op = "cleanup", !.exc = r.exc,
                                 !.ret = r.exc = "none", !.value = now + late,
                                 !.healthy = (h = Healthy), !.h = h]
       /\ UNCHANGED <<nextId, hist>>

NextSweep ==
  \/ StoreMemory
  \/ RetrieveMemory
  \/ Cleanup
  \/ Restart

SpecSweep == Init /\ [][NextSweep]_vars

\* ------------------------------------------------------------------------
\* Threads of one process and self._local (memory_manager.py lines 88-91)
\* ------------------------------------------------------------------------
\* threading.local() as a thread other than the one that ran __init__ sees
\* it: lines 90-91 set in_transaction and transaction_operations for the
\* constructing thread only, every other thread finds no such attribute
NoLocal == [set |-> FALSE, intx |-> FALSE, ops |-> <<>>]

\* the manager as the thread whose attributes of self._local are l sees it
LocalWorld(w, l) == [w EXCEPT !.intx = l.intx, !.ops = l.ops]

\* store_memory (lines 144-248) on such a thread: the Memory is built, then
\* the first _add_transaction_operation reads self._local.in_transaction
\* (line 138)
thread_store_memory(w, l, h, id, a, t) ==
  LET r == store_memory(LocalWorld(w, l), h, id, a.content, a.memory_type,
                        a.importance, a.vector, t)
  IN IF r.exc = "ValidationError" \/ l.set THEN r
     ELSE [w |-> w, exc |-> "AttributeError", mem |-> NoMemory, ran |-> <<>>,
           wrote |-> FALSE]

\* transaction().__enter__ (lines 107-111) on such a thread: line 107 reads
\* self._local.in_transaction
thread_transaction_enter(w, l) ==
  IF ~l.set THEN [w |-> w, exc |-> "AttributeError"]
  ELSE transaction_enter(LocalWorld(w, l))

\* the constructing thread holds in_transaction and transaction_operations,
\* pc the attributes of self._local of each worker thread
InitThreads ==
  /\ cache = Empty
  /\ redis = Empty
  /\ graph = Empty
  /\ grels = {}
  /\ vstore = {}
  /\ in_transaction = FALSE
  /\ transaction_operations = <<>>
  /\ nextId = 0
  /\ now = 0
  /\ last = NoCall
  /\ hist = NoHist
  /\ pc = [w \in Workers |-> NoLocal]
  /\ lock = Free

\* what a call of a worker thread that ended as r leaves: the stores and
\* the thread's own attributes of self._local
ThreadBecomes(w, r) ==
  /\ cache' = r.w.cache
  /\ redis' = r.w.redis
  /\ graph' = r.w.graph
  /\ grels' = r.w.grels
  /\ vstore' = r.w.vstore
  /\ pc' = [pc EXCEPT ![w] = IF @.set
                             THEN [@ EXCEPT !.intx = r.w.intx, !.ops = r.w.ops]
                             ELSE @]
  /\ UNCHANGED <<in_transaction, transaction_operations, hist, lock>>

\* a worker thread calls store_memory
ThreadStored(w, a, h, r) ==
  /\ nextId < MaxIds
  /\ Clock
  /\ ThreadBecomes(w, r)
  /\ nextId' = IF r.exc # "ValidationError" THEN nextId + 1 ELSE nextId
  /\ last' = [NoCall EXCEPT !.op = "thread_store", !.tgt = w,
                            !.id = IF r.exc # "ValidationError"
                                   THEN nextId + 1 ELSE 0,
                            !.exc = r.exc, !.ret = r.exc = "none",
                            !.mem = r.mem, !.ran = r.ran,
                            !.intx = pc[w].intx,
                            !.content = a.content,
                            !.memory_type = a.memory_type,
                            !.importance = a.importance,
                            !.vector = a.vector,
                            !.healthy = (h = Healthy), !.h = h]

ThreadStore(w) ==
  \E a \in StoreInputs, h \in Healths :
    ThreadStored(w, a, h, thread_store_memory(World, pc[w], h, nextId + 1, a, now))

\* a worker thread enters with manager.transaction():
ThreadEntered(w, r) ==
  /\ Clock
  /\ ThreadBecomes(w, r)
  /\ last' = [NoCall EXCEPT !.op = "thread_transaction", !.tgt = w,
                            !.exc = r.exc, !.ret = r.exc = "none",
                            !.intx = pc[w].intx]
  /\ UNCHANGED nextId

ThreadTransaction(w) == ThreadEntered(w, thread_transaction_enter(World, pc[w]))

NextThreads ==
  \/ StoreMemory
  \/ TransactionEnter
  \/ TransactionCommit
  \/ TransactionAbort
  \/ \E w \in Workers : ThreadStore(w)
  \/ \E w \in Workers : ThreadTransaction(w)

SpecThreads == InitThreads /\ [][NextThreads]_vars

\* ------------------------------------------------------------------------
\* core/storage/vector_store.py: the FAISS index, its id map and its file
\*   index   : kind "ivf" (IndexIVFFlat of __init__, never trained) or
\*             "flat" (IndexFlatL2 of delete and clear), and its vectors
\*   keys    : the keys of _id_map in insertion order
\*   id_map  : _id_map, id -> position in the index, counted from 0
\*   next_id : _next_id
\*   file    : the index last written to _index_path; <<>> when none
\* A vector is [dim, val]: its length and what its entries are.
\* ------------------------------------------------------------------------
VectorInputs ==
  { [dim |-> VectorDimension, val |-> 1], [dim |-> VectorDimension, val |-> 2],
    [dim |-> EmbeddingDimension, val |-> 1] }

IvfIndex == [kind |-> "ivf", vectors |-> <<>>]
FlatIndex == [kind |-> "flat", vectors |-> <<>>]

\* VectorStore.__init__ (lines 56-160): a new IndexIVFFlat, replaced by the
\* index read from _index_path when that file exists (_load_index, lines
\* 162-176).  The id map is looked for under _index_path + ".map", while
\* np.save of _save_index wrote it under that name with ".npy" appended:
\* no map is found, _id_map stays empty and _next_id 0.
VectorStore_init(file) ==
  [index |-> IF file = <<>> THEN IvfIndex ELSE file[1],
   keys |-> <<>>, id_map |-> Empty, next_id |-> 0, file |-> file]

\* _save_index (lines 178-192)
save_index(s) == [s EXCEPT !.file = <<s.index>>]

\* faiss: Index.reconstruct(key) raises for a key outside the index and for
\* an IVF index, which keeps no direct map
CanReconstruct(s, key) ==
  s.index.kind = "flat" /\ key < Len(s.index.vectors)

\* VectorStore.add (lines 194-231): the shape is compared with _dimension;
\* Index.add raises on an index that needs training and has none; every
\* exception is caught and False returned
add(s, id, vector) ==
  IF vector.dim # VectorDimension \/ s.index.kind = "ivf"
  THEN [s |-> s, ret |-> FALSE]
  ELSE [s |-> save_index(
                [s EXCEPT !.index.vectors = Append(@, vector.val),
                          !.keys = IF id \in DOMAIN s.id_map THEN @
                                   ELSE Append(@, id),
                          !.id_map = Put(@, id, s.next_id),
                          !.next_id = @ + 1]),
        ret |-> TRUE]

\* VectorStore.delete (lines 286-328): a new IndexFlatL2 is filled with the
\* vectors of the other ids, reconstructed from the old index
delete(s, id) ==
  LET rest == SelectSeq(s.keys, LAMBDA k : k # id) IN
  IF id \notin DOMAIN s.id_map THEN [s |-> s, ret |-> FALSE]
  ELSE IF \E i \in 1..Len(rest) : ~CanReconstruct(s, s.id_map[rest[i]])
  THEN [s |-> s, ret |-> FALSE]
  ELSE [s |-> save_index(
                [s EXCEPT
                   !.index = [kind |-> "flat",
                              vectors |->
                                [i \in 1..Len(rest) |->
                                   s.index.vectors[s.id_map[rest[i]] + 1]]],
                   !.keys = rest,
                   !.id_map = [k \in DOMAIN s.id_map \ {id} |->
                                 (CHOOSE i \in 1..Len(rest) : rest[i] = k) - 1],
                   !.next_id = Len(rest)]),
        ret |-> TRUE]

\* VectorStore.update (lines 330-353): delete, then add
update(s, id, vector) ==
  LET d == delete(s, id) IN
  IF ~d.ret THEN [s |-> s, ret |-> FALSE] ELSE add(d.s, id, vector)

\* VectorStore.get (lines 355-371): the value of the vector, 0 for None
get(s, id) ==
  IF id \notin DOMAIN s.id_map THEN 0
  ELSE IF ~CanReconstruct(s, s.id_map[id]) THEN 0
  ELSE s.index.vectors[s.id_map[id] + 1]

\* VectorStore.clear (lines 373-387)
clear(s) ==
  [s |-> save_index([s EXCEPT !.index = FlatIndex, !.keys = <<>>,
                              !.id_map = Empty, !.next_id = 0]),
   ret |-> TRUE]

\* VectorStore.__contains__ (lines 397-406)
contains(s, id) == id \in DOMAIN s.id_map

\* ------------------------------------------------------------------------
\* One vector store, held in vstore, called by the processes that open it
\* one after the other.  hist.wrote[id] is the value of the vector that the
\* last add or update of id stored (one that returned True), 0 when there
\* is none or a delete or clear that returned True came after it; now
\* counts the calls.
\* ------------------------------------------------------------------------
NoVectors == [i \in Ids |-> 0]

InitVectors ==
  /\ vstore = VectorStore_init(<<>>)
  /\ cache = Empty
  /\ redis = Empty
  /\ graph = Empty
  /\ grels = {}
  /\ in_transaction = FALSE
  /\ transaction_operations = <<>>
  /\ nextId = 0
  /\ now = 0
  /\ last = NoCall
  /\ hist = [NoHist EXCEPT !.wrote = NoVectors]
  /\ pc = Idle
  /\ lock = Free

VectorCall ==
  /\ now < MaxVectorCalls
  /\ now' = now + 1
  /\ UNCHANGED <<cache, redis, graph, grels, in_transaction,
                 transaction_operations, nextId, pc, lock>>

VectorAdd ==
  \E id \in Ids, v \in VectorInputs :
    LET r == add(vstore, id, v)
    IN /\ VectorCall
       /\ vstore' = r.s
       /\ last' = [NoCall EXCEPT !.op = "add", !.id = id, !.ret = r.ret,
                                 !.vector = v.dim, !.value = v.val,
                                 !.before = vstore]
       /\ hist' = IF r.ret THEN [hist EXCEPT !.wrote[id] = v.val] ELSE hist

VectorDelete ==
  \E id \in Ids :
    LET r == delete(vstore, id)
    IN /\ VectorCall
       /\ vstore' = r.s
       /\ last' = [NoCall EXCEPT !.op = "delete", !.id = id, !.ret = r.ret,
                                 !.before = vstore]
       /\ hist' = IF r.ret THEN [hist EXCEPT !.wrote[id] = 0] ELSE hist

VectorUpdate ==
  \E id \in Ids, v \in VectorInputs :
    LET r == update(vstore, id, v)
    IN /\ VectorCall
       /\ vstore' = r.s
       /\ last' = [NoCall EXCEPT !.op = "update", !.id = id, !.ret = r.ret,
                                 !.vector = v.dim, !.value = v.val,
                                 !.before = vstore]
       /\ hist' = IF r.ret THEN [hist EXCEPT !.wrote[id] = v.val]
                  ELSE IF ~contains(r.s, id) THEN [hist EXCEPT !.wrote[id] = 0]
                  ELSE hist

VectorClear ==
  /\ VectorCall
  /\ vstore' = clear(vstore).s
  /\ last' = [NoCall EXCEPT !.op = "clear", !.ret = TRUE, !.before = vstore]
  /\ hist' = [hist EXCEPT !.wrote = NoVectors]

\* the process ends and the next one constructs its VectorStore over the
\* same _index_path
VectorRestart ==
  /\ VectorCall
  /\ vstore' = VectorStore_init(vstore.file)
  /\ last' = [NoCall EXCEPT !.op = "restart", !.before = vstore]
  /\ UNCHANGED hist

NextVectors ==
  \/ VectorAdd
  \/ VectorDelete
  \/ VectorUpdate
  \/ VectorClear
  \/ VectorRestart

SpecVectors == InitVectors /\ [][NextVectors]_vars

\* ------------------------------------------------------------------------
\* The retrieval layer.  Python objects are records: reading an attribute
\* that the object's class does not declare raises AttributeError.  Scores,
\* similarities, distances and thresholds are counted in hundredths.
\* ------------------------------------------------------------------------
HasAttr(obj, name) == name \in DOMAIN obj

Scores == {20, 50, 80}

\* RetrievalResult(**kw) (memory_model.py lines 500-528): memory and score
\* are required and score lies in [0, 1]; a keyword argument that names no
\* field is ignored, pydantic's default for a model without a Config
RetrievalResult(kw) ==
  IF ~({"memory", "score"} \subseteq DOMAIN kw) THEN Raised("ValidationError")
  ELSE IF kw.score < 0 \/ kw.score > 100 THEN Raised("ValidationError")
  ELSE Returned_value([memory |-> kw.memory, score |-> kw.score,
                       strategy |-> "hybrid", metadata |-> "none"])

\* MemoryQuery(query=..., limit=..., threshold=...) (lines 449-498)
MemoryQuery(query, limit, threshold) ==
  [query |-> query, strategy |-> "hybrid", filters |-> "none",
   limit |-> limit, threshold |-> threshold, metadata |-> "none"]

\* A Memory as the retrieval tests build it
RetrievalMemory(id, ac, ctz) ==
  [HandlerMemory("short_term", 5, ac, <<>>, 0, 10, 0, 0, ctz, ctz)
     EXCEPT !.id = id]

\* memory_utils.update_importance (lines 250-282): datetime.utcnow() minus
\* created_at, then memory.relations_count, which Memory does not declare
update_importance(m) ==
  IF m.created_tz = "utc" THEN Raised("TypeError")
  ELSE IF ~HasAttr(m, "relations_count") THEN Raised("AttributeError")
  ELSE Returned_value(m.importance)

\* memory_utils.postprocess_memory (lines 85-115): accessed_at and
\* access_count are written to the object before update_importance is
\* called; memory.vectors is no attribute of Memory either (its field is
\* vector)
postprocess_memory(m, t) ==
  LET m1 == [m EXCEPT !.accessed_at = t, !.accessed_tz = "naive",
                      !.access_count = @ + 1]
      u == update_importance(m1)
  IN IF u.exc # "none" THEN [mem |-> m1, exc |-> u.exc]
     ELSE IF ~HasAttr(m1, "vectors") THEN [mem |-> m1, exc |-> "AttributeError"]
     ELSE [mem |-> [m1 EXCEPT !.importance = u.value], exc |-> "none"]

\* RetrievalEngine.postprocess_results (retrieval_engine.py lines 325-353):
\* the results from result i on; done: the results already handled.  After
\* postprocess_memory, result.importance is assigned, which RetrievalResult
\* does not declare: pydantic raises ValueError.
RECURSIVE PostprocessEach(_, _, _, _)
PostprocessEach(results, i, done, t) ==
  IF i > Len(results) THEN Returned_value(done)
  ELSE LET p == postprocess_memory(results[i].memory, t) IN
       IF p.exc # "none" THEN Raised(p.exc)
       ELSE IF ~HasAttr(results[i], "importance") THEN Raised("ValueError")
       ELSE PostprocessEach(results, i + 1,
              Append(done, [results[i] EXCEPT
                              !.memory = p.mem,
                              !.importance = p.mem.importance,
                              !.accessed_at = p.mem.accessed_at,
                              !.access_count = p.mem.access_count]), t)

postprocess_results(results, t) == PostprocessEach(results, 1, <<>>, t)

\* the loop of _merge_results (lines 256-264) from result i on; merged: the
\* values of the dict in insertion order
RECURSIVE MergeEach(_, _, _)
MergeEach(results, i, merged) ==
  IF i > Len(results) THEN Returned_value(merged)
  ELSE IF ~HasAttr(results[i], "memory_id") THEN Raised("AttributeError")
  ELSE LET r == results[i]
           at == {j \in 1..Len(merged) : merged[j].memory_id = r.memory_id}
       IN IF at = {} THEN MergeEach(results, i + 1, Append(merged, r))
          ELSE LET j == CHOOSE k \in at : TRUE IN
               MergeEach(results, i + 1,
                         [merged EXCEPT ![j].score = Max(@, r.score)])

\* the position of the first result that no other result outscores
First(q) ==
  CHOOSE i \in 1..Len(q) :
    \A j \in 1..Len(q) : q[j].score < q[i].score \/ (q[j].score = q[i].score /\ j >= i)

\* list.sort(key=lambda x: x.score, reverse=True): stable, descending
RECURSIVE SortByScore(_)
SortByScore(q) ==
  IF q = <<>> THEN <<>>
  ELSE LET i == First(q) IN
       <<q[i]>> \o SortByScore(SubSeq(q, 1, i - 1) \o SubSeq(q, i + 1, Len(q)))

\* RetrievalEngine._merge_results (retrieval_engine.py lines 237-271)
RetrievalEngine_merge_results(results) ==
  LET m == MergeEach(results, 1, <<>>) IN
  IF m.exc # "none" THEN m ELSE Returned_value(SortByScore(m.value))

\* RetrievalEngine._filter_results (lines 273-323) for no memory_type: the
\* time filter reads r.created_at and the importance filter r.importance
filter_results(results, time_filter, importance_filter) ==
  IF results = <<>> THEN Returned_value(<<>>)
  ELSE IF time_filter /\ ~HasAttr(results[1], "created_at")
  THEN Raised("AttributeError")
  ELSE IF importance_filter /\ ~HasAttr(results[1], "importance")
  THEN Raised("AttributeError")
  ELSE Returned_value(results)

\* the parameters of VectorStore.search (vector_store.py lines 233-238)
SearchParameters == {"vector", "k", "threshold"}

\* VectorStore.search (lines 233-284) over nearest, the stored ids by
\* ascending L2 distance from the query vector: the k nearest, without
\* those whose distance exceeds a threshold that is not 0
search(nearest, k, threshold) ==
  SelectSeq(SubSeq(nearest, 1, Min(k, Len(nearest))),
            LAMBDA c : threshold = 0 \/ c.score <= threshold)

\* the methods of GraphStore (graph_store.py) the retrieval layer may call
GraphStoreMethods ==
  {"get_node", "get_node_by_property", "get_neighbors",
   "get_related_memories", "get_memories_by_time"}

\* one hit of retrieve_by_content (memory_retrieval.py lines 132-150)
ContentResult(c) ==
  RetrievalResult([memory_id |-> c.id, memory |-> RetrievalMemory(c.id, 0, "naive"),
                   score |-> c.score, access_count |-> 0])

\* the memories postprocess_results (retrieval_engine.py lines 343-351)
\* writes to, from result i on: postprocess_memory assigns accessed_at and
\* access_count of result.memory before anything raises, and an exception
\* ends the loop
RECURSIVE PostprocessWrites(_, _, _)
PostprocessWrites(results, i, t) ==
  IF i > Len(results) THEN {}
  ELSE LET p == postprocess_memory(results[i].memory, t) IN
       {p.mem} \cup (IF p.exc # "none" \/ ~HasAttr(results[i], "importance") THEN {}
                     ELSE PostprocessWrites(results, i + 1, t))

\* retrieve_by_content up to its merged_results (memory_retrieval.py lines
\* 115-153): search is called with the keyword top_k, which it does not
\* have, and the hits are resolved with graph_store.get_memory
content_merged(top_k, threshold, nearest) ==
  IF "top_k" \notin SearchParameters THEN Raised("TypeError")
  ELSE LET hits == search(nearest, top_k * 2, threshold) IN
       IF hits # <<>> /\ "get_memory" \notin GraphStoreMethods
       THEN Raised("AttributeError")
       ELSE RetrievalEngine_merge_results(
              [i \in 1..Len(hits) |-> ContentResult(hits[i]).value])

\* MemoryRetrieval.retrieve_by_content (core/retrieval/memory_retrieval.py
\* lines 91-158): merged_results, postprocess_results, then [:top_k]
retrieve_by_content(top_k, threshold, nearest, t) ==
  LET m == content_merged(top_k, threshold, nearest)
      p == IF m.exc # "none" THEN m ELSE postprocess_results(m.value, t)
  IN IF p.exc # "none" THEN p
     ELSE Returned_value(SubSeq(p.value, 1, Min(top_k, Len(p.value))))

\* the memories a call of retrieve_by_content writes to as if the hits
\* reached postprocess_results unmerged
ContentWrites_of_hits(top_k, threshold, nearest, t) ==
  LET hits == search(nearest, top_k * 2, threshold)
  IN PostprocessWrites([i \in 1..Len(hits) |-> ContentResult(hits[i]).value], 1, t)

\* the memories a call of retrieve_by_content writes to: those of the
\* merged_results that postprocess_results (line 156) is called with
ContentWrites(top_k, threshold, nearest, t) ==
  LET m == content_merged(top_k, threshold, nearest)
  IN IF m.exc # "none" THEN {} ELSE PostprocessWrites(m.value, 1, t)

\* MemoryRetrieval.retrieve_by_relation (lines 160-216) over related, what
\* GraphStore.get_related_memories returns: a dict from memory id to a list
\* of dicts.  The loop reads r.strength of such a dict.
retrieve_by_relation(related, t) ==
  IF related # <<>> THEN Raised("AttributeError")
  ELSE postprocess_results(<<>>, t)

\* MemoryRetrieval.retrieve_by_time (lines 218-280) over memories, what
\* GraphStore.get_memories_by_time returns: a list of dicts.  The loop
\* reads memory.created_at of such a dict.
retrieve_by_time(memories, t) ==
  IF memories # <<>> THEN Raised("AttributeError")
  ELSE postprocess_results(<<>>, t)

\* MemoryRetrieval.retrieve_by_importance (lines 282-339) calls
\* graph_store.get_memories_by_importance
retrieve_by_importance(t) ==
  IF "get_memories_by_importance" \notin GraphStoreMethods
  THEN Raised("AttributeError")
  ELSE postprocess_results(<<>>, t)

\* results.extend(source(...)): an exception of the source leaves retrieve
Extend(acc, wanted, r) ==
  IF acc.exc # "none" \/ ~wanted THEN acc
  ELSE IF r.exc # "none" THEN Raised(r.exc)
  ELSE Returned_value(acc.value \o r.value)

Merged(acc) ==
  IF acc.exc # "none" THEN acc ELSE RetrievalEngine_merge_results(acc.value)

Filtered(m, req) ==
  IF m.exc # "none" THEN m ELSE filter_results(m.value, req.time, req.importance)

\* RetrievalEngine.retrieve (retrieval_engine.py lines 143-235).  req says
\* which of query, relation_filter, time_filter and importance_filter are
\* given; env is what the stores hold for them.
RetrievalEngine_retrieve(req, env, t) ==
  LET c == Extend(Returned_value(<<>>), req.query,
                  retrieve_by_content(req.top_k * 2, req.threshold, env.nearest, t))
      r == Extend(c, req.relation, retrieve_by_relation(env.related, t))
      s == Extend(r, req.time, retrieve_by_time(env.timed, t))
      i == Extend(s, req.importance, retrieve_by_importance(t))
      f == Filtered(Merged(i), req)
  IN IF f.exc # "none" THEN f
     ELSE Returned_value(SubSeq(f.value, 1, Min(req.top_k, Len(f.value))))

\* ------------------------------------------------------------------------
\* core/memory/memory_retrieval.py: MemoryRetrieval.  Similarities after
\* the weighting of _hybrid_retrieval are counted in thousandths.
\* ------------------------------------------------------------------------
VectorWeight == 7
GraphWeight == 3

\* RetrievalResult(memory=, similarity=, source=) for each hit (lines
\* 158-162 and 210-214); <<>> stands for a constructor that raised
SourceResults(hits, source) ==
  LET made == [i \in 1..Len(hits) |->
                 RetrievalResult([memory |-> RetrievalMemory(hits[i].id, 0, "naive"),
                                  similarity |-> hits[i].score,
                                  source |-> source])]
  IN IF \E i \in 1..Len(hits) : made[i].exc # "none" THEN Raised("ValidationError")
     ELSE Returned_value([i \in 1..Len(hits) |-> made[i].value])

\* the loop of _merge_results (lines 359-366) from result i on: of two
\* results of a memory the one of higher similarity stays
RECURSIVE UniqueEach(_, _, _)
UniqueEach(results, i, unique) ==
  IF i > Len(results) THEN Returned_value(unique)
  ELSE LET r == results[i]
           at == {j \in 1..Len(unique) : unique[j].memory.id = r.memory.id}
       IN IF at = {} THEN UniqueEach(results, i + 1, Append(unique, r))
          ELSE IF ~HasAttr(r, "similarity") THEN Raised("AttributeError")
          ELSE LET j == CHOOSE k \in at : TRUE IN
               UniqueEach(results, i + 1,
                          IF r.similarity > unique[j].similarity
                          THEN [unique EXCEPT ![j] = r] ELSE unique)

\* MemoryRetrieval._merge_results (lines 345-375): sorted by similarity,
\* descending
MemoryRetrieval_merge_results(results) ==
  LET u == UniqueEach(results, 1, <<>>) IN
  IF u.exc # "none" THEN u
  ELSE IF u.value # <<>> /\ ~HasAttr(u.value[1], "similarity")
  THEN Raised("AttributeError")
  ELSE Returned_value(
         SortByScore([i \in 1..Len(u.value) |->
                        [u.value[i] EXCEPT !.score = u.value[i].similarity]]))

\* what a try block that catches every exception and returns [] yields
OrEmpty(r) == IF r.exc # "none" THEN <<>> ELSE r.value

\* MemoryRetrieval._vector_retrieval (lines 122-167) over hits, what
\* VectorStore.search returns for the query: it reads query.content and
\* query.memory_type, which MemoryQuery does not declare
vector_retrieval(query, hits) ==
  IF ~HasAttr(query, "content") THEN <<>>
  ELSE LET made == SourceResults(hits, "vector") IN
       IF made.exc # "none" THEN <<>>
       ELSE OrEmpty(MemoryRetrieval_merge_results(made.value))

\* MemoryRetrieval._graph_retrieval (lines 169-219) over hits, the
\* neighbours of query.memory_ids with their calculate_similarity
graph_retrieval(query, hits) ==
  IF ~HasAttr(query, "memory_ids") THEN <<>>
  ELSE LET made == SourceResults(hits, "graph") IN
       IF made.exc # "none" THEN <<>>
       ELSE OrEmpty(MemoryRetrieval_merge_results(made.value))

\* lines 254-258: result.similarity *= 0.7 for source "vector", else 0.3
Weighted(r) ==
  [r EXCEPT !.similarity =
     IF r.source = "vector" THEN VectorWeight * @ ELSE GraphWeight * @]

\* MemoryRetrieval._hybrid_retrieval (lines 221-263)
hybrid_retrieval(query, vector_hits, graph_hits) ==
  LET results == vector_retrieval(query, vector_hits)
                   \o graph_retrieval(query, graph_hits)
  IN IF \E i \in 1..Len(results) : ~HasAttr(results[i], "source") THEN <<>>
     ELSE OrEmpty(MemoryRetrieval_merge_results(
                    [i \in 1..Len(results) |-> Weighted(results[i])]))

\* MemoryRetrieval.retrieve (lines 86-120) with the HYBRID strategy:
\* _postprocess_results (lines 377-393) calls postprocess_memory for each
\* result; every exception is caught and [] returned
MemoryRetrieval_retrieve(query, limit, vector_hits, graph_hits, t) ==
  LET results == hybrid_retrieval(query, vector_hits, graph_hits)
      done == [i \in 1..Len(results) |-> postprocess_memory(results[i].memory, t)]
  IN IF \E i \in 1..Len(results) : done[i].exc # "none" THEN <<>>
     ELSE SubSeq([i \in 1..Len(results) |->
                    [results[i] EXCEPT !.memory = done[i].mem]],
                 1, Min(limit, Len(results)))

\* ------------------------------------------------------------------------
\* The retrieval calls over what the stores hold, one call per behaviour.
\* last.given is what the call was given, last.results what it returned.
\* ------------------------------------------------------------------------
\* a hit: the id of a memory and its score
Hits == [id : Ids, score : Scores]

RECURSIVE HitLists(_)
HitLists(n) ==
  IF n = 0 THEN {<<>>}
  ELSE HitLists(n - 1) \cup {Append(q, c) : q \in HitLists(n - 1), c \in Hits}

\* lists of ids without repetition, as a store returns its matches
IdLists ==
  {<<>>} \cup {<<i>> : i \in Ids}
    \cup {q \in {<<i, j>> : i \in Ids, j \in Ids} : q[1] # q[2]}

\* the results the tests build: RetrievalResult(memory_id=, memory=, score=,
\* memory_type=, importance=, created_at=, accessed_at=, access_count=)
TestResult(c, ac, ctz) ==
  RetrievalResult([memory_id |-> c.id, memory |-> RetrievalMemory(c.id, ac, ctz),
                   score |-> c.score, memory_type |-> "short_term",
                   importance |-> 5, created_at |-> 0, accessed_at |-> 0,
                   access_count |-> ac]).value

InitRetrieval ==
  /\ cache = Empty
  /\ vstore = {}
  /\ now = 1
  /\ last = NoCall
  /\ NoStores

\* retrieval._merge_results(results) (test_retrieval.py lines 225-258)
MergeResults ==
  \E hits \in HitLists(MaxResults) :
    LET r == RetrievalEngine_merge_results(
               [i \in 1..Len(hits) |-> TestResult(hits[i], 0, "naive")])
    IN /\ last.op = "init"
       /\ last' = [NoCall EXCEPT !.op = "merge_results", !.given = hits,
                                 !.exc = r.exc,
                                 !.results = IF r.exc = "none" THEN r.value ELSE <<>>]
       /\ UNCHANGED cache
       /\ UNCHANGED now
       /\ StoresUnchanged

\* retrieval.postprocess_results(results) (test_retrieval.py lines 302-334)
PostprocessResults ==
  \E ids \in IdLists, ac \in {0, 1}, ctz \in {"utc", "naive"} :
    LET given == [i \in 1..Len(ids) |->
                    TestResult([id |-> ids[i], score |-> 80], ac, ctz)]
        r == postprocess_results(given, now)
    IN /\ last.op = "init"
       /\ last' = [NoCall EXCEPT !.op = "postprocess_results",
                                 !.given = given, !.exc = r.exc,
                                 !.results = IF r.exc = "none" THEN r.value ELSE <<>>]
       /\ UNCHANGED cache
       /\ UNCHANGED now
       /\ StoresUnchanged

\* retrieval.retrieve_by_content(query, top_k=, threshold=)
RetrieveByContent ==
  \E top_k \in 1..2, threshold \in Scores, nearest \in HitLists(2) :
    LET r == retrieve_by_content(top_k, threshold, nearest, now)
    IN /\ last.op = "init"
       /\ \A i \in 1..Len(nearest), j \in 1..Len(nearest) :
            i < j => (nearest[i].score <= nearest[j].score /\ nearest[i].id # nearest[j].id)
       /\ last' = [NoCall EXCEPT !.op = "retrieve_by_content",
                                 !.given = [top_k |-> top_k, threshold |-> threshold,
                                            nearest |-> nearest],
                                 !.value = ContentWrites(top_k, threshold, nearest, now),
                                 !.exc = r.exc,
                                 !.results = IF r.exc = "none" THEN r.value ELSE <<>>]
       /\ UNCHANGED cache
       /\ UNCHANGED now
       /\ StoresUnchanged

\* retrieval.retrieve(query=, relation_filter=, time_filter=,
\* importance_filter=, top_k=, threshold=)
EngineRetrieve ==
  \E q \in BOOLEAN, rel \in BOOLEAN, tm \in BOOLEAN, imp \in BOOLEAN,
     related \in IdLists, timed \in IdLists :
    LET req == [query |-> q, relation |-> rel, time |-> tm, importance |-> imp,
                top_k |-> 2, threshold |-> 50]
        env == [nearest |-> <<[id |-> 1, score |-> 20]>>, related |-> related,
                timed |-> timed]
        r == RetrievalEngine_retrieve(req, env, now)
    IN /\ last.op = "init"
       /\ last' = [NoCall EXCEPT !.op = "retrieve_engine",
                                 !.given = [req |-> req, env |-> env],
                                 !.value = IF q THEN ContentWrites(req.top_k * 2, req.threshold,
                                                                   env.nearest, now)
                                           ELSE {},
                                 !.exc = r.exc,
                                 !.results = IF r.exc = "none" THEN r.value ELSE <<>>]
       /\ UNCHANGED cache
       /\ UNCHANGED now
       /\ StoresUnchanged

\* MemoryRetrieval(vector_store, graph_store).retrieve(query) of
\* core/memory, the strategy being HYBRID
HybridRetrieve ==
  \E vector_hits \in HitLists(2), graph_hits \in HitLists(2), limit \in {1, 10} :
    LET query == MemoryQuery("a", limit, 50)
        r == MemoryRetrieval_retrieve(query, limit, vector_hits, graph_hits, now)
    IN /\ last.op = "init"
       /\ last' = [NoCall EXCEPT !.op = "retrieve_hybrid",
                                 !.given = [vector |-> vector_hits,
                                            graph |-> graph_hits, limit |-> limit],
                                 !.results = r]
       /\ UNCHANGED cache
       /\ UNCHANGED now
       /\ StoresUnchanged

NextRetrieval ==
  \/ MergeResults
  \/ PostprocessResults
  \/ RetrieveByContent
  \/ EngineRetrieve
  \/ HybridRetrieve

SpecRetrieval == InitRetrieval /\ [][NextRetrieval]_vars

\* ========================================================================
\* Properties
\* ========================================================================
\* what retrieve_memory(id) returns when called now with every store up
Probe(id) == retrieve_memory(World, Healthy, id, now)

Reverse(q) == [i \in 1..Len(q) |-> q[Len(q) + 1 - i]]

\* C1 -- Rollback completeness: once one of the writes of store_memory
\* (vector add, graph node add, cache set) has failed for a memory, a
\* following retrieve_memory of its id finds nothing in any tier.
C1_RollbackComplete ==
  \A id \in Ids : hist.wrote[id] = "failed" => ~Probe(id).found

\* C2 -- Soft-transaction rollback: the writes of a store run in the order
\* vector, node, cache; when one throws, the compensations run are exactly
\* those of the writes already applied, in reverse order, and the caller
\* gets TransactionError.
C2_RollbackReversesApplied ==
  /\ (last.op = "store" /\ ~last.intx /\ last.exc = "none")
       => last.ran = StoreKinds
  /\ (last.op \in {"store", "commit"}
        /\ last.exc \notin {"none", "ValidationError"})
       => /\ last.exc = "TransactionError"
          /\ last.comp = Reverse(last.ran)

\* the call that just ended is a retrieve_memory of the id that the call
\* before it, a store_memory, returned
ReadsBackStore ==
  /\ last.op = "store" /\ last.ret
  /\ last'.op = "retrieve" /\ last'.id = last.id /\ last'.exc = "none"

SameAsStored ==
  /\ last'.ret
  /\ last'.mem.content = last.content
  /\ last'.mem.memory_type = last.memory_type
  /\ last'.mem.importance = last.importance

C6_NotReentrant ==
  [][(in_transaction /\ last'.op = "transaction")
       => /\ last'.exc = "TransactionError"
          /\ transaction_operations' = transaction_operations
          /\ in_transaction'
          /\ UNCHANGED <<cache, redis, graph, grels, vstore>>]_vars

\* a nested transaction() was refused while operations were registered
C6_Witness ==
  /\ last.op = "transaction" /\ last.exc = "TransactionError"
  /\ in_transaction /\ transaction_operations # <<>>

\* C7 -- Access bookkeeping is monotone: a successful retrieve_memory
\* returns an access_count above, and an accessed_at not before, those the
\* last successful retrieve_memory of that id returned.
C7_AccessMonotone ==
  \A id \in Ids :
    Probe(id).found =>
      /\ Probe(id).mem.access_count > hist.seen[id].count
      /\ Probe(id).mem.accessed_at >= hist.seen[id].at

\* C8 -- After delete_memory(id), called with every store up, has ended,
\* retrieve_memory(id) finds nothing (ids are never stored twice).
C8_DeletedNotFound ==
  \A id \in Ids :
    (hist.del[id].res # "none" /\ hist.del[id].healthy) => ~Probe(id).found

Gone(id) ==
  /\ id \notin vstore
  /\ id \notin DOMAIN graph
  /\ id \notin DOMAIN redis
  /\ id \notin DOMAIN cache

\* C9 -- delete_memory removes the memory from the vector index, the graph
\* store and the cache, whether or not the local cache held it, and returns
\* True only if all of them are removed.
C9_DeleteRemovesAll ==
  last.op = "delete" =>
    /\ last.healthy => Gone(last.id)
    /\ last.ret => Gone(last.id)

\* C10 -- add_relation / remove_relation are all or nothing: a call that
\* fails leaves the relation list of the source object as it was; a call
\* that succeeds has the change in the object and in the graph store.
C10_RelationAllOrNothing ==
  [][(last'.op \in {"add_relation", "remove_relation"}
        /\ last'.id \in DOMAIN cache /\ last'.id \in DOMAIN cache')
       => IF last'.ret
          THEN (<<last'.id, last'.tgt>> \in grels') = (last'.op = "add_relation")
          ELSE cache'[last'.id].relations = cache[last'.id].relations]_vars

\* C4 -- Per-id serialization: the read-modify-write sequences of concurrent
\* calls on one memory id do not interleave, so once an update_memory call
\* has returned, the values it assigned are those of the node in the graph
\* store (every update of a field assigns the same value here).
C4_NoLostUpdate ==
  \A w \in Workers :
    /\ pc[w].done.content # "" => graph[nextId].content = pc[w].done.content
    /\ pc[w].done.importance # 0
         => graph[nextId].importance = pc[w].done.importance

\* C5 -- Lock acquisition is bounded: a retrieve_memory that has not got the
\* per-memory lock LockTimeout seconds after asking for it has failed with a
\* lock-timeout error; it is not still waiting for the lock another holds.
C5_BoundedWait ==
  \A w \in Workers :
    (pc[w].at = "wait" /\ Held /\ lock.holder # w)
      => now - pc[w].since < LockTimeout

\* ------------------------------------------------------------------------
\* update_memory, failures of the stores, the retry of retrieve_memory
\* ------------------------------------------------------------------------
\* the copy a tier holds under the id of the last call carries the values
\* the call returned
HoldsMerged(tier) ==
  /\ last.id \in DOMAIN tier
  /\ tier[last.id].content = last.mem.content
  /\ tier[last.id].importance = last.mem.importance
  /\ tier[last.id].status = last.mem.status
  /\ tier[last.id].updated_at = last.mem.updated_at

\* a new process reads the memory back: the local cache is empty, so Redis
\* or the graph serves it
ReadBackElsewhere(id) ==
  retrieve_memory([World EXCEPT !.cache = Empty], Healthy, id, now)

\* C11: update_memory writes through. After it returned a memory that every
\* store had accepted, with every store healthy, the local cache, Redis and
\* the graph node all hold the merged values, and a retrieve served by
\* another tier returns them.
C11_UpdateWritesThrough ==
  (last.op = "update" /\ last.ret /\ last.healthy
     /\ hist.wrote[last.id] = "ok") =>
    /\ HoldsMerged(cache)
    /\ HoldsMerged(redis)
    /\ HoldsMerged(graph)
    /\ ReadBackElsewhere(last.id).found
    /\ ReadBackElsewhere(last.id).mem.content = last.mem.content
    /\ ReadBackElsewhere(last.id).mem.importance = last.mem.importance
    /\ ReadBackElsewhere(last.id).mem.status = last.mem.status

\* C12: a store that cannot be used is reported as a failure, not as
\* not-found. A retrieve_memory made while Redis or the graph store fails,
\* for a memory whose node the graph store holds, either returns the memory
\* or raises; it never answers None as it does for an id never stored.
C12_UnavailableDistinct ==
  (last.op = "retrieve" /\ (~last.h.redis \/ last.h.graph # "ok")
     /\ last.id \in DOMAIN graph) =>
    (last.ret \/ last.exc # "none")

\* the call just made, had the graph store been healthy during it
WithGraphOk(h, id) ==
  retrieve_memory(World, [h EXCEPT !.graph = "ok"], id, now)

\* C13: a failure of the access bookkeeping never fails the read. A
\* retrieve_memory made while the graph store fails, which with a healthy
\* graph store is served by the local cache or by Redis, returns that same
\* memory and raises nothing.
C13_BookkeepingSwallowed ==
  [][(last'.op = "retrieve" /\ last'.h.graph # "ok"
        /\ WithGraphOk(last'.h, last'.id).found
        /\ WithGraphOk(last'.h, last'.id).tier # "graph") =>
       (/\ last'.ret
        /\ last'.exc = "none"
        /\ last'.mem = WithGraphOk(last'.h, last'.id).mem)]_vars

\* a read served by Redis whose graph update raised a driver error
C13_Witness ==
  /\ last.op = "retrieve"
  /\ last.h.graph = "raise"
  /\ last.tier = "remote"
  /\ last.ret
  /\ graph[last.id].access_count < last.mem.access_count

\* C14: retrieve_memory terminates. Every call runs its body at least once
\* and at most MaxAttempts times; a call during which a store fails on every
\* attempt ends after exactly MaxAttempts attempts, with the failure raised
\* to the caller.
C14_RetryBounded ==
  last.op = "retrieve" =>
    /\ last.attempts \in 1..MaxAttempts
    /\ last.exc \in {"none", "RetryError"}
    /\ last.exc = "RetryError" => (last.attempts = MaxAttempts /\ ~last.ret)
    /\ ~last.h.redis => last.exc = "RetryError"

\* a read that gave up after its third attempt to take the Redis lock
C14_Witness ==
  /\ last.op = "retrieve"
  /\ ~last.h.redis
  /\ last.exc = "RetryError"
  /\ last.attempts = MaxAttempts

\* ------------------------------------------------------------------------
\* The cache ttl and the handlers of the memory types
\* ------------------------------------------------------------------------
\* 3600 * clamp(importance/5, 1, 2) * clamp(min(access_count/10 + 1, 2), 1, 2)
\* for an importance of 1..10, as an integer
ClampedTtl(m) ==
  72 * Max(5, Min(10, m.importance)) * Max(10, Min(20, m.access_count + 10))

\* C15: for an importance in 1..10 and an access count of 0 or more,
\* _get_cache_ttl returns 3600 times the importance factor clamped to [1,2]
\* times the access factor clamped to [1,2]: never less than 3600 nor more
\* than 14400, and 14400 for importance 10 and 20 accesses.
C15_TtlClamped ==
  last.op = "get_cache_ttl" =>
    /\ last.value = ClampedTtl(last.before)
    /\ last.value >= 3600
    /\ last.value <= 14400
    /\ (last.before.importance = 10 /\ last.before.access_count = 20)
         => last.value = 14400

\* C16: for each of the four handlers and every memory, calculate_importance
\* returns an integer in [1,10].
C16_ImportanceClamped ==
  last.op = "calculate_importance" =>
    (last.exc = "none" /\ last.value \in 1..10)

\* what the handler of the memory's type computes for the memory optimize
\* was given
Recomputed ==
  calculate_importance(last.before.memory_type, last.before, now)

\* C17: optimize of a SHORT_TERM memory rewrites the type to LONG_TERM
\* exactly when the recomputed importance is at least 7; of a WORKING memory
\* to LONG_TERM when it is at least 7, to SHORT_TERM when it is 4..6, and
\* leaves it WORKING below 4; of a SKILL memory it never changes the type.
C17_Promotion ==
  (last.op = "optimize" /\ Recomputed.exc = "none") =>
    /\ last.before.memory_type = "short_term" =>
         cache[1].memory_type =
           (IF Recomputed.value >= 7 THEN "long_term" ELSE "short_term")
    /\ last.before.memory_type = "working" =>
         cache[1].memory_type =
           (IF Recomputed.value >= 7 THEN "long_term"
            ELSE IF Recomputed.value >= 4 THEN "short_term" ELSE "working")
    /\ last.before.memory_type = "skill" => cache[1].memory_type = "skill"

\* C18: optimize of a LONG_TERM memory whose importance comes out below 5
\* (base importance below 5, no relations, no accesses) rewrites the type to
\* SHORT_TERM.
C18_Demotion ==
  (/\ last.op = "optimize"
   /\ last.exc = "none"
   /\ last.before.memory_type = "long_term"
   /\ last.before.importance < 5
   /\ last.before.relations = <<>>
   /\ last.before.access_count = 0) =>
    cache[1].memory_type = "short_term"

\* C19: in the life of a memory that starts SHORT_TERM with one relation,
\* an optimize that follows an access succeeds and does not lower the
\* importance; the memory becomes LONG_TERM in the very optimize that brings
\* the importance to 7 or more, and is never WORKING.
C19_Lifecycle ==
  (/\ last.op = "optimize"
   /\ last.before.memory_type \in {"short_term", "long_term"}
   /\ Len(last.before.relations) = 1
   /\ last.before.access_count >= 1) =>
    /\ last.exc = "none"
    /\ cache[1].importance >= last.before.importance
    /\ last.before.memory_type = "short_term" =>
         (cache[1].memory_type = "long_term" <=> cache[1].importance >= 7)
    /\ cache[1].memory_type # "working"

\* C20: for a WORKING memory at most an hour old and of importance 2 or
\* more, should_forget answers true when the memory was not accessed for
\* more than 30 minutes and false at 29 minutes.
C20_WorkingForget ==
  (/\ last.op = "should_forget"
   /\ last.before.memory_type = "working"
   /\ now - last.before.created_at <= 60
   /\ last.before.importance >= 2) =>
    /\ last.exc = "none"
    /\ last.ret = (now - last.before.accessed_at > 30)

\* C26 -- Status is monotonic toward DELETED: over any sequence of manager
\* operations, a memory whose status is DELETED (in the graph node or in
\* the object the manager holds) never has another status afterwards.
C26_StatusMonotone ==
  [][\A i \in Ids :
       /\ (i \in DOMAIN graph /\ i \in DOMAIN graph'
           /\ graph[i].status = "deleted") => graph'[i].status = "deleted"
       /\ (i \in DOMAIN cache /\ i \in DOMAIN cache'
           /\ cache[i].status = "deleted") => cache'[i].status = "deleted"]_vars

\* C27 -- A DELETED memory gains no relation: no manager operation makes
\* the relation list of a memory whose status is and stays DELETED longer;
\* add_relation on it is rejected and leaves the list as it was.
C27_DeletedGainsNoRelation ==
  [][\A i \in Ids :
       (i \in DOMAIN cache /\ i \in DOMAIN cache'
        /\ cache[i].status = "deleted" /\ cache'[i].status = "deleted")
         => Len(cache'[i].relations) <= Len(cache[i].relations)]_vars

\* C28 -- Embedding fallback: a store_memory call that is given no vector
\* and whose embedding provider fails (the vector is then the fallback of
\* EmbeddingDimension zeros) completes without raising, and afterwards the
\* vector index holds the memory under a vector of the index's dimension.
C28_EmbeddingFallback ==
  (/\ last.op = "store"
   /\ last.vector = EmbeddingDimension
   /\ last.healthy
   /\ ~last.intx) =>
    /\ last.exc = "none"
    /\ last.id \in vstore
    /\ last.mem.vector = VectorDimension

\* C30 -- Tier order and population: a retrieve_memory call that finds the
\* memory is served by the first of local cache, remote cache and graph
\* store that holds it; afterwards the local cache holds it, after a graph
\* hit the remote cache holds it too, and a following retrieve_memory of
\* the id is served by the local cache.
C30_TierOrder ==
  [][(last'.op = "retrieve" /\ last'.ret) =>
       LET id == last'.id
           after == [cache |-> cache', redis |-> redis', graph |-> graph',
                     grels |-> grels', vstore |-> vstore',
                     intx |-> in_transaction',
                     ops |-> transaction_operations']
       IN /\ (last'.tier = "local") = (id \in DOMAIN cache)
          /\ last'.tier = "remote" =>
               (id \notin DOMAIN cache /\ id \in DOMAIN redis)
          /\ last'.tier = "graph" =>
               /\ id \notin DOMAIN cache
               /\ id \notin DOMAIN redis
               /\ id \in DOMAIN graph
               /\ id \in DOMAIN redis'
          /\ last'.tier \in {"local", "remote", "graph"}
          /\ id \in DOMAIN cache'
          /\ retrieve_memory(after, Healthy, id, now').tier = "local"]_vars

\* a retrieve_memory call was served by the graph store, which left the
\* memory in both caches
C30_Witness ==
  /\ last.op = "retrieve"
  /\ last.ret
  /\ last.tier = "graph"
  /\ last.id \in DOMAIN cache
  /\ last.id \in DOMAIN redis

\* C29 -- Vector store consistency: after any sequence of add, delete and
\* update calls, get(id) returns the vector most recently stored for every
\* id the store contains; an id whose delete returned True is not
\* contained and get returns nothing for it; and that delete left the
\* vector returned for every other id as it was.
C29_VectorConsistency ==
  /\ \A id \in Ids : contains(vstore, id) => get(vstore, id) = hist.wrote[id]
  /\ (last.op = "delete" /\ last.ret) =>
       /\ ~contains(vstore, last.id)
       /\ get(vstore, last.id) = 0
       /\ \A id \in Ids \ {last.id} : get(vstore, id) = get(last.before, id)

\* C21 -- Hybrid fusion: a memory that the vector search finds with score
\* v and the graph search with score g is, in the result of a hybrid
\* retrieve whose limit does not cut it off, exactly one entry, and that
\* entry's score is the larger of 0.7 v and 0.3 g (in thousandths: of 7 v
\* and 3 g), not their sum.
C21_HybridFusion ==
  (last.op = "retrieve_hybrid" /\ last.given.limit = 10) =>
    \A id \in Ids :
      LET v == {c.score : c \in {last.given.vector[i] : i \in 1..Len(last.given.vector)} \cap [id : {id}, score : Scores]}
          g == {c.score : c \in {last.given.graph[i] : i \in 1..Len(last.given.graph)} \cap [id : {id}, score : Scores]}
          at == {i \in 1..Len(last.results) : last.results[i].memory.id = id}
      IN (v # {} /\ g # {}) =>
           /\ Cardinality(at) = 1
           /\ \A i \in at :
                /\ \E x \in v, y \in g :
                     last.results[i].similarity = Max(VectorWeight * x, GraphWeight * y)
                /\ \A x \in v, y \in g :
                     last.results[i].similarity >= Max(VectorWeight * x, GraphWeight * y)

\* C22 -- Merge rule: _merge_results returns one entry for each distinct
\* memory id of its argument and no other, the entry's score being the
\* largest score given for that id, in descending order of score.
C22_MergeRule ==
  last.op = "merge_results" =>
    LET given == {last.given[i] : i \in 1..Len(last.given)}
        n == Len(last.results)
    IN /\ last.exc = "none"
       /\ {last.results[i].memory.id : i \in 1..n} = {c.id : c \in given}
       /\ n = Cardinality({c.id : c \in given})
       /\ \A i \in 1..n :
            /\ \E c \in given :
                 c.id = last.results[i].memory.id /\ c.score = last.results[i].score
            /\ \A c \in given :
                 c.id = last.results[i].memory.id => c.score <= last.results[i].score
       /\ \A i \in 1..n, j \in 1..n :
            i < j => last.results[i].score >= last.results[j].score

\* C23 -- Access update exactly once per retrieval call: a combined
\* retrieve returns every memory that a requested source finds as one
\* entry whose access_count is one more than the stored one, also when
\* several sources find it; postprocess_results adds exactly one to the
\* access_count of each result it is given.
C23_AccessOnce ==
  /\ last.op = "retrieve_engine" =>
       LET req == last.given.req
           env == last.given.env
           found == (IF req.relation THEN {env.related[i] : i \in 1..Len(env.related)} ELSE {})
                      \cup (IF req.time THEN {env.timed[i] : i \in 1..Len(env.timed)} ELSE {})
       IN \A id \in found :
            /\ last.exc = "none"
            /\ Cardinality({i \in 1..Len(last.results) : last.results[i].memory.id = id}) = 1
            /\ \A i \in 1..Len(last.results) :
                 last.results[i].memory.id = id => last.results[i].memory.access_count = 1
  /\ last.op = "postprocess_results" =>
       /\ last.exc = "none"
       /\ Len(last.results) = Len(last.given)
       /\ \A i \in 1..Len(last.results) :
            last.results[i].memory.access_count = last.given[i].memory.access_count + 1

\* C24 -- Graceful degradation: a combined retrieve of which at least one
\* requested source returns does not raise and returns what the sources
\* that returned found; it fails only when every requested source fails.
C24_GracefulDegradation ==
  last.op = "retrieve_engine" =>
    LET req == last.given.req
        env == last.given.env
        outcome == [s \in {"query", "relation", "time", "importance"} |->
                      CASE s = "query" ->
                             retrieve_by_content(req.top_k * 2, req.threshold, env.nearest, now)
                        [] s = "relation" -> retrieve_by_relation(env.related, now)
                        [] s = "time" -> retrieve_by_time(env.timed, now)
                        [] OTHER -> retrieve_by_importance(now)]
        returned == {s \in DOMAIN outcome : req[s] /\ outcome[s].exc = "none"}
    IN /\ returned # {} => last.exc = "none"
       /\ {last.results[i].memory.id : i \in 1..Len(last.results)}
            \subseteq UNION {{outcome[s].value[i].memory.id : i \in 1..Len(outcome[s].value)} : s \in returned}

\* C25 -- Threshold filter: retrieve_by_content(query, top_k, threshold)
\* returns at most top_k results, each of a score of at least threshold,
\* in descending order of score.
C25_ThresholdFilter ==
  last.op = "retrieve_by_content" =>
    LET n == Len(last.results) IN
    /\ last.exc = "none"
    /\ n <= last.given.top_k
    /\ \A i \in 1..n : last.results[i].score >= last.given.threshold
    /\ \A i \in 1..n, j \in 1..n :
         i < j => last.results[i].score >= last.results[j].score

\* C31 -- Access write-back: after a successful retrieve_memory made with
\* every store up, whichever tier served it, the graph node and the Redis
\* copy of the memory record the access_count and accessed_at of the memory
\* returned, and the access_count returned is one more than the one the
\* serving tier held before the call.
C31_AccessWriteBack ==
  [][(last'.op = "retrieve" /\ last'.ret /\ last'.healthy) =>
       LET id == last'.id
           m == last'.mem
           held == CASE last'.tier = "local" -> cache[id]
                     [] last'.tier = "remote" -> redis[id]
                     [] OTHER -> graph[id]
       IN /\ id \in DOMAIN graph'
          /\ graph'[id].access_count = m.access_count
          /\ graph'[id].accessed_at = m.accessed_at
          /\ id \in DOMAIN redis'
          /\ redis'[id].access_count = m.access_count
          /\ redis'[id].accessed_at = m.accessed_at
          /\ m.access_count = held.access_count + 1]_vars

\* C32 -- Cleanup sweep: cleanup, called with every store up, removes from
\* the local cache and from every store each memory of the local cache
\* that is older than the timeout, or of an importance below the floor, or
\* not accessed for longer than the timeout, and leaves every other cached
\* memory as it was in the local cache and in every store.
C32_CleanupSweep ==
  [][(last'.op = "cleanup" /\ last'.healthy) =>
       \A id \in DOMAIN cache :
         LET m == cache[id]
             t == last'.value
         IN IF \/ t - m.created_at > MemoryTimeout
               \/ m.importance < ImportanceThreshold
               \/ t - m.accessed_at > MemoryTimeout
            THEN /\ id \notin DOMAIN cache'
                 /\ id \notin DOMAIN graph'
                 /\ id \notin DOMAIN redis'
                 /\ id \notin vstore'
            ELSE /\ id \in DOMAIN cache' /\ cache'[id] = m
                 /\ (id \in DOMAIN graph) = (id \in DOMAIN graph')
                 /\ (id \in DOMAIN graph => graph'[id] = graph[id])
                 /\ (id \in DOMAIN redis) = (id \in DOMAIN redis')
                 /\ (id \in DOMAIN redis => redis'[id] = redis[id])
                 /\ (id \in vstore) = (id \in vstore')]_vars

\* C33 -- Transaction state is per worker: a worker thread other than the
\* constructing one can call store_memory and transaction(); its store,
\* made outside a transaction of its own, does at once what store_memory
\* does on a manager with no transaction open, and neither call touches
\* the transaction open on the constructing thread.
C33_PerWorkerTransaction ==
  [][/\ last'.op \in {"thread_store", "thread_transaction"} =>
          /\ in_transaction' = in_transaction
          /\ transaction_operations' = transaction_operations
     /\ (last'.op = "thread_transaction" /\ ~last'.intx) => last'.exc = "none"
     /\ (last'.op = "thread_store" /\ ~last'.intx) =>
          LET r == store_memory([World EXCEPT !.intx = FALSE, !.ops = <<>>],
                                last'.h, nextId + 1, last'.content,
                                last'.memory_type, last'.importance,
                                last'.vector, now)
          IN /\ last'.exc = r.exc
             /\ last'.mem = r.mem
             /\ cache' = r.w.cache
             /\ redis' = r.w.redis
             /\ graph' = r.w.graph
             /\ vstore' = r.w.vstore]_vars

\* C34 -- Mutual exclusion survives slow critical sections: at no time are
\* two threads inside the locked section of retrieve_memory for one memory
\* id, however long the first of them stays in it.
C34_MutualExclusion ==
  \A v \in Workers, w \in Workers :
    (pc[v].at = "locked" /\ pc[w].at = "locked") => v = w

\* C35 -- Failed update is a no-op: when update_memory raises for a memory
\* that retrieve_memory finds, the content, importance, status and
\* updated_at that retrieve_memory returns for it afterwards are those it
\* returned before the call.
C35_FailedUpdateNoOp ==
  [][(last'.op = "update" /\ last'.exc # "none" /\ Probe(last'.id).found) =>
       LET id == last'.id
           after == [cache |-> cache', redis |-> redis', graph |-> graph',
                     grels |-> grels', vstore |-> vstore',
                     intx |-> in_transaction',
                     ops |-> transaction_operations']
           was == Probe(id).mem
           is == retrieve_memory(after, Healthy, id, now')
       IN /\ is.found
          /\ is.mem.content = was.content
          /\ is.mem.importance = was.importance
          /\ is.mem.status = was.status
          /\ is.mem.updated_at = was.updated_at]_vars

\* C36 -- Optimize is idempotent: when a handler's optimize has returned,
\* the same handler's optimize, called again at once on the memory it
\* returned, returns too and leaves importance and memory_type as the
\* first call left them.
C36_OptimizeIdempotent ==
  (last.op = "optimize" /\ last.exc = "none") =>
    \A sticks \in BOOLEAN :
      LET again == optimize(last.before.memory_type, cache[1], now, sticks)
      IN /\ again.exc = "none"
         /\ again.mem.importance = cache[1].importance
         /\ again.mem.memory_type = cache[1].memory_type

\* C37 -- Store and forget policies agree at creation: a memory of age 0
\* and idle time 0 that its category's should_store accepts is one for
\* which the same category's should_forget returns, and returns False.
C37_StoreForgetAgree ==
  (/\ last.op = "should_store"
   /\ last.ret
   /\ last.before.created_at = now
   /\ last.before.accessed_at = now) =>
    LET f == should_forget(last.before.memory_type, last.before, now)
    IN f.exc = "none" /\ ~f.ret

====
